---- MODULE Spec2Model ----
(***************************************************************************)
(* A model of the footballapi reconciliation engine:                       *)
(*   normalize.py  - team-name normalisation, similarity, timestamps       *)
(*   service.py    - _match_records (record linker), merge_provider_matches*)
(*                   (merge engine), LiveScoreService (refresh cache,       *)
(*                   filters, quality gate)                                *)
(*                                                                         *)
(* Representation.                                                         *)
(*  - A Python str of a team name is a TLA+ string; NameChars gives its    *)
(*    characters, on which the normaliser and the sequence matcher work.   *)
(*  - A float is a fixed-point integer, Unit to 1.0.  Unit is a multiple   *)
(*    of every denominator the model's similarities, time bonuses and      *)
(*    confidences have, so the arithmetic below is exact.                  *)
(*  - An optional int (a score) is a set with at most one element:         *)
(*    {} is None, {2} is 2.                                                *)
(*  - An ISO-8601 string is a record [kind, local, zone]: kind "none" is   *)
(*    None, "malformed" a string fromisoformat rejects, "iso" a well-formed*)
(*    one with wall-clock second `local` and zone suffix `zone`.           *)
(***************************************************************************)
EXTENDS Integers, Sequences, FiniteSets, TLC

(***************************************************************************)
(* Fixed point                                                             *)
(***************************************************************************)
\* 1.0; divisible by 1..10 (ratio denominators), by 1000 and by 1800 (bonus)
Unit == 2520 * 1000
\* n hundredths, as in the literals 0.76, 0.95, ...
Hundredths(n) == n * (Unit \div 100)
Min(a, b) == IF a <= b THEN a ELSE b
Max(a, b) == IF a >= b THEN a ELSE b

\* a local variable: Body applied to the value it is bound to
With(value, Body(_)) == Body(value)
\* [F(x) for x in s]
MapSeq(F(_), s) == [i \in 1..Len(s) |-> F(s[i])]

(***************************************************************************)
(* normalize.py : characters                                               *)
(***************************************************************************)
LowerLetters ==
    {"a","b","c","d","e","f","g","h","i","j","k","l","m",
     "n","o","p","q","r","s","t","u","v","w","x","y","z"}
Digits == {"0","1","2","3","4","5","6","7","8","9"}

\* unicodedata.normalize("NFKD", ch) for the characters the model uses:
\* a precomposed letter becomes its base letter followed by a combining mark
NFKD(ch) ==
    CASE ch = "e_acute" -> <<"e", "combining_acute">>
      [] ch = "E_acute" -> <<"E", "combining_acute">>
      [] OTHER -> <<ch>>

\* unicodedata.combining(ch) != 0
IsCombining(ch) == ch \in {"combining_acute"}

\* str.lower() for one character
LowerChar(ch) ==
    CASE ch = "A" -> "a" [] ch = "B" -> "b" [] ch = "C" -> "c"
      [] ch = "D" -> "d" [] ch = "E" -> "e" [] ch = "F" -> "f"
      [] ch = "G" -> "g" [] ch = "S" -> "s" [] ch = "E_acute" -> "e_acute"
      [] ch = "I" -> "i" [] ch = "L" -> "l" [] ch = "N" -> "n"
      [] ch = "P" -> "p" [] ch = "U" -> "u" [] ch = "V" -> "v"
      [] OTHER -> ch

\* the set TEAM_STOP_WORDS, each word as its characters
TEAM_STOP_WORDS ==
    { <<"a","c">>, <<"a","f","c">>, <<"a","t","h","l","e","t","i","c">>,
      <<"a","t","l","e","t","i","c","o">>, <<"c","f">>, <<"c","l","u","b">>,
      <<"f","c">>, <<"f","k">>, <<"f","o","o","t">>,
      <<"f","o","o","t","b","a","l","l">>, <<"i","f">>, <<"n","k">>,
      <<"r","c">>, <<"s","c">>, <<"s","k">>,
      <<"s","p","o","r","t","i","n","g">>, <<"s","v">> }

RECURSIVE FlatMap(_, _)
\* "".join(f(ch) for ch in s), f giving a sequence per character
FlatMap(F(_), s) ==
    IF s = <<>> THEN <<>> ELSE F(Head(s)) \o FlatMap(F, Tail(s))

\* re.sub(r"[^a-z0-9 ]+", " ", text), character by character: a run of k
\* foreign characters gives k spaces where the code gives one, which the
\* whitespace split that follows does not tell apart
ReplaceForeign(ch) ==
    IF ch \in LowerLetters \cup Digits \cup {" "} THEN ch ELSE " "

RECURSIVE SplitWords(_, _)
\* text.split(): the maximal runs of non-space characters, in order;
\* cur is the word being read
SplitWords(s, cur) ==
    IF s = <<>> THEN (IF cur = <<>> THEN <<>> ELSE <<cur>>)
    ELSE IF Head(s) = " "
         THEN (IF cur = <<>> THEN <<>> ELSE <<cur>>) \o SplitWords(Tail(s), <<>>)
         ELSE SplitWords(Tail(s), Append(cur, Head(s)))

RECURSIVE JoinWords(_)
\* " ".join(parts)
JoinWords(parts) ==
    IF parts = <<>> THEN <<>>
    ELSE IF Len(parts) = 1 THEN parts[1]
    ELSE parts[1] \o <<" ">> \o JoinWords(Tail(parts))

\* normalize_team_name on a sequence of characters (<<>> is None or "")
NormalizeChars(chars) ==
    IF chars = <<>> THEN <<>>
    ELSE LET decomposed == FlatMap(NFKD, chars)
             stripped   == SelectSeq(decomposed, LAMBDA ch : ~IsCombining(ch))
             lowered    == MapSeq(LowerChar, stripped)
             cleaned    == MapSeq(ReplaceForeign, lowered)
             parts      == SelectSeq(SplitWords(cleaned, <<>>),
                                     LAMBDA p : p \notin TEAM_STOP_WORDS)
         IN  JoinWords(parts)

(***************************************************************************)
(* difflib.SequenceMatcher(None, a, b).ratio()                             *)
(***************************************************************************)
RECURSIVE CommonLen(_, _, _, _, _, _)
\* the length of the longest common run starting at a[i] and b[j], inside
\* a[..ahi] and b[..bhi]
CommonLen(a, i, ahi, b, j, bhi) ==
    IF i > ahi \/ j > bhi THEN 0
    ELSE IF a[i] # b[j] THEN 0
    ELSE 1 + CommonLen(a, i + 1, ahi, b, j + 1, bhi)

\* find_longest_match: <<i, j, k>>, the longest block a[i..i+k-1] =
\* b[j..j+k-1] inside a[alo..ahi], b[blo..bhi]; of the longest blocks the one
\* starting earliest in a, and of those the one starting earliest in b
FindLongestMatch(a, alo, ahi, b, blo, bhi) ==
    LET pairs == (alo..ahi) \X (blo..bhi)
        len(p) == CommonLen(a, p[1], ahi, b, p[2], bhi)
        best  == CHOOSE p \in pairs :
                   \A q \in pairs :
                      \/ len(p) > len(q)
                      \/ /\ len(p) = len(q)
                         /\ \/ p[1] < q[1]
                            \/ (p[1] = q[1] /\ p[2] <= q[2])
    IN  IF pairs = {} THEN <<alo, blo, 0>> ELSE <<best[1], best[2], len(best)>>

RECURSIVE MatchedChars(_, _, _, _, _, _)
\* the total size of get_matching_blocks(): the longest block, then the same
\* to its left and to its right
MatchedChars(a, alo, ahi, b, blo, bhi) ==
    IF alo > ahi \/ blo > bhi THEN 0
    ELSE With(FindLongestMatch(a, alo, ahi, b, blo, bhi), LAMBDA m :
           IF m[3] = 0 THEN 0
           ELSE m[3]
                + MatchedChars(a, alo, m[1] - 1, b, blo, m[2] - 1)
                + MatchedChars(a, m[1] + m[3], ahi, b, m[2] + m[3], bhi))

\* ratio(): 2.0 * matches / (len(a) + len(b)), 1.0 when both are empty
Ratio(a, b) ==
    IF Len(a) + Len(b) = 0 THEN Unit
    ELSE (2 * MatchedChars(a, 1, Len(a), b, 1, Len(b)) * Unit) \div (Len(a) + Len(b))

(***************************************************************************)
(* Team names of the model                                                 *)
(***************************************************************************)
\* the characters of each team-name string the model draws from
NameChars(name) ==
    CASE name = "" -> <<>>
      [] name = "Alpha FC" -> <<"A","l","p","h","a"," ","F","C">>
      [] name = "Beta FC"  -> <<"B","e","t","a"," ","F","C">>
      [] name = "Beta"     -> <<"B","e_acute","t","a">>
      [] name = "Alfa"     -> <<"A","l","f","a">>
      [] name = "AC Bet"   -> <<"A","C"," ","B","e","t">>
      [] name = "Delta-SC" -> <<"D","e","l","t","a","-","S","C">>
      [] name = "FC"       -> <<"F","C">>

TeamNames == {"", "Alpha FC", "Beta FC", "Beta", "Alfa", "AC Bet", "Delta-SC", "FC"}

\* normalize_team_name, tabulated over the model's names
NormalizedName == [n \in TeamNames |-> NormalizeChars(NameChars(n))]

\* similarity(left, right)
SimilarityOf(left, right) ==
    With(NormalizedName[left], LAMBDA left_norm :
    With(NormalizedName[right], LAMBDA right_norm :
        IF left_norm = <<>> /\ right_norm = <<>> THEN Unit
        ELSE IF left_norm = <<>> \/ right_norm = <<>> THEN 0
        ELSE Ratio(left_norm, right_norm)))

\* similarity, tabulated over the model's names
SimilarityTable == [l \in TeamNames, r \in TeamNames |-> SimilarityOf(l, r)]

similarity(left, right) == SimilarityTable[left, right]

\* team_pair_similarity with > for >=: a tie goes to the swapped orientation
team_pair_similarity_ties_swapped(home_a, away_a, home_b, away_b) ==
    With((similarity(home_a, home_b) + similarity(away_a, away_b)) \div 2,
         LAMBDA direct :
    With((similarity(home_a, away_b) + similarity(away_a, home_b)) \div 2,
         LAMBDA swapped :
        IF direct > swapped THEN <<direct, FALSE>> ELSE <<swapped, TRUE>>))

\* team_pair_similarity: <<score, swapped>>
team_pair_similarity(home_a, away_a, home_b, away_b) ==
    With((similarity(home_a, home_b) + similarity(away_a, away_b)) \div 2,
         LAMBDA direct :
    With((similarity(home_a, away_b) + similarity(away_a, home_b)) \div 2,
         LAMBDA swapped :
        IF direct >= swapped THEN <<direct, FALSE>> ELSE <<swapped, TRUE>>))

(***************************************************************************)
(* normalize.py : timestamps                                               *)
(***************************************************************************)
NoTime == [kind |-> "none", local |-> 0, zone |-> ""]
MalformedTime == [kind |-> "malformed", local |-> 0, zone |-> ""]
\* the string "2026-01-01T<local as HH:MM:SS><zone>", local in seconds
IsoTime(local, zone) == [kind |-> "iso", local |-> local, zone |-> zone]

\* the UTC offset, in seconds, a zone suffix states; "" is a naive time
ZoneOffset(zone) ==
    CASE zone = "Z" -> 0
      [] zone = "+00:00" -> 0
      [] zone = "" -> 0
      [] zone = "+02:00" -> 2 * 3600

\* parse_iso_utc: {} for None, else {the instant, in seconds, in UTC}: a
\* trailing Z and a naive time are UTC, any other zone is converted
parse_iso_utc(value) ==
    IF value.kind # "iso" THEN {}
    ELSE {value.local - ZoneOffset(value.zone)}

\* the element of a one-element set
The(option) == CHOOSE v \in option : TRUE

\* minutes_between: {} for None, else {abs(seconds) / 60.0}, a fixed-point
\* number of minutes
minutes_between(left_iso, right_iso) ==
    With(parse_iso_utc(left_iso), LAMBDA left :
    With(parse_iso_utc(right_iso), LAMBDA right :
        IF left = {} \/ right = {} THEN {}
        ELSE {(IF The(left) >= The(right) THEN The(left) - The(right)
               ELSE The(right) - The(left)) * (Unit \div 60)}))

(***************************************************************************)
(* service.py : helpers                                                    *)
(***************************************************************************)
\* STATUS_PRIORITY.get(status, 0)
STATUS_PRIORITY(status) ==
    CASE status = "live" -> 5
      [] status = "finished" -> 4
      [] status = "postponed" -> 3
      [] status = "cancelled" -> 2
      [] status = "scheduled" -> 1
      [] OTHER -> 0

\* _preferred_status with >= for >: a tie takes the later value
_preferred_status_ties_later(first, second) ==
    IF STATUS_PRIORITY(second) >= STATUS_PRIORITY(first) THEN second ELSE first

_preferred_status(first, second) ==
    IF STATUS_PRIORITY(second) > STATUS_PRIORITY(first) THEN second ELSE first

\* _score_pair
_score_pair(row) == <<row.home_score, row.away_score>>

\* "None not in scores"
FullyKnown(scores) == scores[1] # {} /\ scores[2] # {}

_max_timestamp(left, right) ==
    With(parse_iso_utc(left), LAMBDA left_dt :
    With(parse_iso_utc(right), LAMBDA right_dt :
        IF left_dt = {} THEN right
        ELSE IF right_dt = {} THEN left
        ELSE IF The(left_dt) >= The(right_dt) THEN left ELSE right))

(***************************************************************************)
(* service.py : _match_records (the record linker)                         *)
(* Indices are 1-based here, 0-based in the code.                          *)
(***************************************************************************)
\* max_minutes_diff: float = 180.0
MAX_MINUTES_DIFF == 180

\* max(0.0, 1.0 - (minute_gap / max_minutes_diff)) * 0.10
TimeBonus(minute_gap, max_minutes_diff) ==
    Max(0, Unit - (minute_gap \div max_minutes_diff)) \div 10

\* the MatchLink the inner loop builds for one (base, candidate) pair
LinkFor(base, candidate, base_index, candidate_index, max_minutes_diff) ==
    With(minutes_between(base.start_time_utc, candidate.start_time_utc),
         LAMBDA minute_gap :
    With(team_pair_similarity(base.home_team, base.away_team,
                              candidate.home_team, candidate.away_team),
         LAMBDA pair :
        [base_index |-> base_index, candidate_index |-> candidate_index,
         similarity |-> pair[1] + (IF minute_gap = {} THEN 0
                                   ELSE TimeBonus(The(minute_gap), max_minutes_diff)),
         swapped |-> pair[2]]))

\* TooFarApart without the gap rule: no candidate is skipped for its time
NeverTooFarApart(base, candidate, max_minutes_diff) ==
    FALSE

\* "minute_gap is not None and minute_gap > max_minutes_diff"
TooFarApart(base, candidate, max_minutes_diff) ==
    With(minutes_between(base.start_time_utc, candidate.start_time_utc),
         LAMBDA minute_gap :
        minute_gap # {} /\ The(minute_gap) > max_minutes_diff * Unit)

\* Improves with >= for >: on equal scores the later candidate wins
ImprovesOrTies(link, best) ==
    best = {} \/ link.similarity >= The(best).similarity

\* "best is None or similarity > best.similarity"
Improves(link, best) ==
    best = {} \/ link.similarity > The(best).similarity

RECURSIVE ScanCandidates(_, _, _, _, _, _, _)
\* the inner loop from candidate_index on: the best link of one base row,
\* {} when every candidate is used or too far apart
ScanCandidates(base, candidate_rows, used_candidates, max_minutes_diff, base_index, candidate_index, best) ==
    IF candidate_index > Len(candidate_rows) THEN best
    ELSE ScanCandidates(
           base, candidate_rows, used_candidates, max_minutes_diff,
           base_index, candidate_index + 1,
           IF candidate_index \in used_candidates THEN best
           ELSE IF TooFarApart(base, candidate_rows[candidate_index], max_minutes_diff)
           THEN best
           ELSE With(LinkFor(base, candidate_rows[candidate_index], base_index,
                             candidate_index, max_minutes_diff),
                     LAMBDA link : IF Improves(link, best) THEN {link} ELSE best))

\* Rejected without the threshold: only "best is None"
RejectedOnlyWhenNone(best, min_similarity) ==
    best = {}

\* "best is None or best.similarity < min_similarity": the link is dropped
Rejected(best, min_similarity) ==
    best = {} \/ The(best).similarity < min_similarity

RECURSIVE MatchFromNoUsed(_, _, _, _, _, _)
\* MatchFrom without used_candidates.add(best.candidate_index)
MatchFromNoUsed(base_rows, candidate_rows, max_minutes_diff, min_similarity, base_index, used_candidates) ==
    IF base_index > Len(base_rows) THEN <<>>
    ELSE With(ScanCandidates(base_rows[base_index], candidate_rows,
                             used_candidates, max_minutes_diff, base_index, 1, {}),
              LAMBDA best :
           IF Rejected(best, min_similarity)
           THEN MatchFromNoUsed(base_rows, candidate_rows, max_minutes_diff,
                                min_similarity, base_index + 1, used_candidates)
           ELSE <<The(best)>> \o
                MatchFromNoUsed(base_rows, candidate_rows, max_minutes_diff,
                                min_similarity, base_index + 1, used_candidates))

RECURSIVE MatchFrom(_, _, _, _, _, _)
\* the outer loop from base_index on
MatchFrom(base_rows, candidate_rows, max_minutes_diff, min_similarity, base_index, used_candidates) ==
    IF base_index > Len(base_rows) THEN <<>>
    ELSE With(ScanCandidates(base_rows[base_index], candidate_rows,
                             used_candidates, max_minutes_diff, base_index, 1, {}),
              LAMBDA best :
           IF Rejected(best, min_similarity)
           THEN MatchFrom(base_rows, candidate_rows, max_minutes_diff,
                          min_similarity, base_index + 1, used_candidates)
           ELSE <<The(best)>> \o
                MatchFrom(base_rows, candidate_rows, max_minutes_diff,
                          min_similarity, base_index + 1,
                          used_candidates \cup {The(best).candidate_index}))

_match_records(base_rows, candidate_rows, max_minutes_diff, min_similarity) ==
    MatchFrom(base_rows, candidate_rows, max_minutes_diff, min_similarity, 1, {})

(***************************************************************************)
(* service.py : merge_provider_matches (the merge engine)                  *)
(*                                                                         *)
(* A row is a record with the fields of the providers' row dicts that the  *)
(* core reads: provider_match_id, competition, venue ("" is None or empty),*)
(* home_team, away_team, home_score, away_score, status, start_time_utc,   *)
(* last_updated_utc, streamed_watch_url (<<>> is None) and discrepancies.  *)
(* raw_status, period, minute and extra_minute are carried along unread    *)
(* and are left out.  A canonical row has sources, confidence,             *)
(* verification and external_ids besides.                                  *)
(***************************************************************************)
\* "str(row.get("status") or "unknown")"
StatusOrUnknown(status) == IF status = "" THEN "unknown" ELSE status

\* round(x, 2) for x >= 0: to the nearest hundredth, a tie going up as the
\* float sums of the model's similarities do (0.80 + 0.125 lies above 0.925)
Round2(x) ==
    LET h == Unit \div 100
    IN  IF 2 * (x % h) >= h THEN ((x \div h) + 1) * h ELSE (x \div h) * h

\* the rows a stage appends for one source: deepcopy(row) plus the four keys
Standalone(row, source, confidence) ==
    [sources |-> <<source>>, confidence |-> confidence,
     verification |-> "single_source",
     external_ids |-> (source :> row.provider_match_id)] @@ row

\* lines 121-127: every goal row becomes a canonical row
SeedGoal(goal_rows) ==
    [i \in 1..Len(goal_rows) |-> Standalone(goal_rows[i], "goal", Hundredths(72))]

\* the f-string of a discrepancy: label, the canonical pair, the source's pair
Discrepancy(label, left, right) == [label |-> label, left |-> left, right |-> right]

\* LinkConfidence without the min(0.98, ...) cap
LinkConfidenceUncapped(link_similarity) ==
    Round2(Hundredths(80) + (link_similarity - Hundredths(75)))

\* line 138: round(min(0.98, 0.80 + (link.similarity - 0.75)), 2)
LinkConfidence(link_similarity) ==
    Round2(Min(Hundredths(98), Hundredths(80) + (link_similarity - Hundredths(75))))

\* EspnReconcile with the confirmation leaving the confidence as it is
EspnReconcileNoRaise(goal_row, espn_row) ==
    LET goal_scores == _score_pair(goal_row)
        espn_scores == _score_pair(espn_row)
    IN  IF goal_scores = espn_scores /\ FullyKnown(goal_scores)
        THEN [goal_row EXCEPT !.verification = "confirmed_by_multiple_sources"]
        ELSE IF FullyKnown(goal_scores) /\ FullyKnown(espn_scores)
                /\ goal_scores # espn_scores
        THEN [goal_row EXCEPT !.verification = "score_conflict",
                              !.confidence = Min(@, Hundredths(56)),
                              !.discrepancies =
                                  Append(@, Discrepancy("Goal score differs from ESPN",
                                                        goal_scores, espn_scores))]
        ELSE IF ~FullyKnown(goal_scores) /\ FullyKnown(espn_scores)
        THEN [goal_row EXCEPT !.home_score = espn_row.home_score,
                              !.away_score = espn_row.away_score,
                              !.verification = "filled_from_espn",
                              !.confidence = Max(@, Hundredths(83))]
        ELSE goal_row

\* EspnReconcile calling any two different pairs a conflict, a missing
\* ESPN score included
EspnReconcileLooseConflict(goal_row, espn_row) ==
    LET goal_scores == _score_pair(goal_row)
        espn_scores == _score_pair(espn_row)
    IN  IF goal_scores = espn_scores /\ FullyKnown(goal_scores)
        THEN [goal_row EXCEPT !.verification = "confirmed_by_multiple_sources",
                              !.confidence = Max(@, Hundredths(95))]
        ELSE IF FullyKnown(goal_scores) /\ goal_scores # espn_scores
        THEN [goal_row EXCEPT !.verification = "score_conflict",
                              !.confidence = Min(@, Hundredths(56)),
                              !.discrepancies =
                                  Append(@, Discrepancy("Goal score differs from ESPN",
                                                        goal_scores, espn_scores))]
        ELSE IF ~FullyKnown(goal_scores) /\ FullyKnown(espn_scores)
        THEN [goal_row EXCEPT !.home_score = espn_row.home_score,
                              !.away_score = espn_row.away_score,
                              !.verification = "filled_from_espn",
                              !.confidence = Max(@, Hundredths(83))]
        ELSE goal_row

\* EspnReconcile filling only the side that is missing
EspnReconcilePartialFill(goal_row, espn_row) ==
    LET goal_scores == _score_pair(goal_row)
        espn_scores == _score_pair(espn_row)
    IN  IF goal_scores = espn_scores /\ FullyKnown(goal_scores)
        THEN [goal_row EXCEPT !.verification = "confirmed_by_multiple_sources",
                              !.confidence = Max(@, Hundredths(95))]
        ELSE IF FullyKnown(goal_scores) /\ FullyKnown(espn_scores)
                /\ goal_scores # espn_scores
        THEN [goal_row EXCEPT !.verification = "score_conflict",
                              !.confidence = Min(@, Hundredths(56)),
                              !.discrepancies =
                                  Append(@, Discrepancy("Goal score differs from ESPN",
                                                        goal_scores, espn_scores))]
        ELSE IF ~FullyKnown(goal_scores) /\ FullyKnown(espn_scores)
        THEN [goal_row EXCEPT !.home_score = IF @ = {} THEN espn_row.home_score ELSE @,
                              !.away_score = IF @ = {} THEN espn_row.away_score ELSE @,
                              !.verification = "filled_from_espn",
                              !.confidence = Max(@, Hundredths(83))]
        ELSE goal_row

\* lines 148-167: the score reconciliation of stage 2
EspnReconcile(goal_row, espn_row) ==
    LET goal_scores == _score_pair(goal_row)
        espn_scores == _score_pair(espn_row)
    IN  IF goal_scores = espn_scores /\ FullyKnown(goal_scores)
        THEN [goal_row EXCEPT !.verification = "confirmed_by_multiple_sources",
                              !.confidence = Max(@, Hundredths(95))]
        ELSE IF FullyKnown(goal_scores) /\ FullyKnown(espn_scores)
                /\ goal_scores # espn_scores
        THEN [goal_row EXCEPT !.verification = "score_conflict",
                              !.confidence = Min(@, Hundredths(56)),
                              !.discrepancies =
                                  Append(@, Discrepancy("Goal score differs from ESPN",
                                                        goal_scores, espn_scores))]
        ELSE IF ~FullyKnown(goal_scores) /\ FullyKnown(espn_scores)
        THEN [goal_row EXCEPT !.home_score = espn_row.home_score,
                              !.away_score = espn_row.away_score,
                              !.verification = "filled_from_espn",
                              !.confidence = Max(@, Hundredths(83))]
        ELSE goal_row

\* ApplyEspnLink reading the espn row's scores the other way round when the
\* link was made in the swapped orientation
ApplyEspnLinkOriented(goal_row, espn_row, link) ==
    With(EspnReconcile(
          [goal_row EXCEPT
             !.sources = Append(@, "espn"),
             !.external_ids = ("espn" :> espn_row.provider_match_id) @@ @,
             !.confidence = LinkConfidence(link.similarity),
             !.status = _preferred_status(StatusOrUnknown(goal_row.status),
                                          StatusOrUnknown(espn_row.status)),
             !.last_updated_utc = _max_timestamp(goal_row.last_updated_utc,
                                                 espn_row.last_updated_utc)],
          IF link.swapped
          THEN [espn_row EXCEPT !.home_score = espn_row.away_score,
                                !.away_score = espn_row.home_score]
          ELSE espn_row),
         LAMBDA scored :
        [scored EXCEPT
           !.competition = IF @ = "" /\ espn_row.competition # ""
                           THEN espn_row.competition ELSE @,
           !.venue = IF @ = "" /\ espn_row.venue # "" THEN espn_row.venue ELSE @])

\* lines 133-172: one accepted goal-espn link applied to its canonical row
ApplyEspnLink(goal_row, espn_row, link) ==
    With(EspnReconcile(
          [goal_row EXCEPT
             !.sources = Append(@, "espn"),
             !.external_ids = ("espn" :> espn_row.provider_match_id) @@ @,
             !.confidence = LinkConfidence(link.similarity),
             !.status = _preferred_status(StatusOrUnknown(goal_row.status),
                                          StatusOrUnknown(espn_row.status)),
             !.last_updated_utc = _max_timestamp(goal_row.last_updated_utc,
                                                 espn_row.last_updated_utc)],
          espn_row),
         LAMBDA scored :
        [scored EXCEPT
           !.competition = IF @ = "" /\ espn_row.competition # ""
                           THEN espn_row.competition ELSE @,
           !.venue = IF @ = "" /\ espn_row.venue # "" THEN espn_row.venue ELSE @])

\* SofaReconcile adopting the source's pair whenever either side has a
\* missing score
SofaReconcileOverwrite(merged_row, sofa_row) ==
    LET merged_scores == _score_pair(merged_row)
        sofa_scores   == _score_pair(sofa_row)
    IN  IF merged_scores = sofa_scores /\ FullyKnown(merged_scores)
        THEN [merged_row EXCEPT !.verification = "confirmed_by_multiple_sources",
                                !.confidence = Max(@, Hundredths(96))]
        ELSE IF ~FullyKnown(merged_scores) \/ ~FullyKnown(sofa_scores)
        THEN [merged_row EXCEPT !.home_score = sofa_row.home_score,
                                !.away_score = sofa_row.away_score,
                                !.verification = "filled_from_sofascore",
                                !.confidence = Max(@, Hundredths(86))]
        ELSE [merged_row EXCEPT !.verification = "score_conflict",
                                !.confidence = Min(@, Hundredths(50)),
                                !.discrepancies =
                                    Append(@, Discrepancy("Merged score differs from SofaScore",
                                                          merged_scores, sofa_scores))]

\* SofaReconcile that leaves a row stage 2 marked score_conflict as it is
SofaReconcileKeepsConflict(merged_row, sofa_row) ==
    LET merged_scores == _score_pair(merged_row)
        sofa_scores   == _score_pair(sofa_row)
    IN  IF merged_row.verification = "score_conflict" THEN merged_row
        ELSE IF merged_scores = sofa_scores /\ FullyKnown(merged_scores)
        THEN [merged_row EXCEPT !.verification = "confirmed_by_multiple_sources",
                                !.confidence = Max(@, Hundredths(96))]
        ELSE IF ~FullyKnown(merged_scores) /\ FullyKnown(sofa_scores)
        THEN [merged_row EXCEPT !.home_score = sofa_row.home_score,
                                !.away_score = sofa_row.away_score,
                                !.verification = "filled_from_sofascore",
                                !.confidence = Max(@, Hundredths(86))]
        ELSE IF FullyKnown(merged_scores) /\ FullyKnown(sofa_scores)
                /\ merged_scores # sofa_scores
        THEN [merged_row EXCEPT !.verification = "score_conflict",
                                !.confidence = Min(@, Hundredths(50)),
                                !.discrepancies =
                                    Append(@, Discrepancy("Merged score differs from SofaScore",
                                                          merged_scores, sofa_scores))]
        ELSE merged_row

\* lines 203-222: the score reconciliation of stage 3
SofaReconcile(merged_row, sofa_row) ==
    LET merged_scores == _score_pair(merged_row)
        sofa_scores   == _score_pair(sofa_row)
    IN  IF merged_scores = sofa_scores /\ FullyKnown(merged_scores)
        THEN [merged_row EXCEPT !.verification = "confirmed_by_multiple_sources",
                                !.confidence = Max(@, Hundredths(96))]
        ELSE IF ~FullyKnown(merged_scores) /\ FullyKnown(sofa_scores)
        THEN [merged_row EXCEPT !.home_score = sofa_row.home_score,
                                !.away_score = sofa_row.away_score,
                                !.verification = "filled_from_sofascore",
                                !.confidence = Max(@, Hundredths(86))]
        ELSE IF FullyKnown(merged_scores) /\ FullyKnown(sofa_scores)
                /\ merged_scores # sofa_scores
        THEN [merged_row EXCEPT !.verification = "score_conflict",
                                !.confidence = Min(@, Hundredths(50)),
                                !.discrepancies =
                                    Append(@, Discrepancy("Merged score differs from SofaScore",
                                                          merged_scores, sofa_scores))]
        ELSE merged_row

\* "x in row["sources"]"
InSources(source, row) == \E i \in 1..Len(row.sources) : row.sources[i] = source

\* ApplySofaLink that records the sofascore id and leaves sources alone
ApplySofaLinkNoSource(merged_row, sofa_row, link) ==
    With(SofaReconcile(
          [merged_row EXCEPT
             !.external_ids = ("sofascore" :> sofa_row.provider_match_id) @@ @,
             !.status = _preferred_status(StatusOrUnknown(merged_row.status),
                                          StatusOrUnknown(sofa_row.status)),
             !.last_updated_utc = _max_timestamp(merged_row.last_updated_utc,
                                                 sofa_row.last_updated_utc)],
          sofa_row),
         LAMBDA scored :
        [scored EXCEPT
           !.competition = IF @ = "" /\ sofa_row.competition # ""
                           THEN sofa_row.competition ELSE @])

\* lines 188-225: one accepted link of stage 3 applied to its canonical row
ApplySofaLink(merged_row, sofa_row, link) ==
    With(SofaReconcile(
          [merged_row EXCEPT
             !.sources = IF InSources("sofascore", merged_row) THEN @
                         ELSE Append(@, "sofascore"),
             !.external_ids = ("sofascore" :> sofa_row.provider_match_id) @@ @,
             !.status = _preferred_status(StatusOrUnknown(merged_row.status),
                                          StatusOrUnknown(sofa_row.status)),
             !.last_updated_utc = _max_timestamp(merged_row.last_updated_utc,
                                                 sofa_row.last_updated_utc)],
          sofa_row),
         LAMBDA scored :
        [scored EXCEPT
           !.competition = IF @ = "" /\ sofa_row.competition # ""
                           THEN sofa_row.competition ELSE @])

\* ApplyStreamedLink that attaches the watch URL and the source, not the id
ApplyStreamedLinkNoId(merged_row, streamed_row, link) ==
    LET watch_url == streamed_row.streamed_watch_url
    IN  IF watch_url # <<>>
        THEN [merged_row EXCEPT
                !.streamed_watch_url = watch_url,
                !.sources = IF InSources("streamed", merged_row) THEN @
                            ELSE Append(@, "streamed")]
        ELSE merged_row

\* ApplyStreamedLink that also lets the streamed row's status in
ApplyStreamedLinkWithStatus(merged_row, streamed_row, link) ==
    LET watch_url == streamed_row.streamed_watch_url
    IN  IF watch_url # <<>>
        THEN [merged_row EXCEPT
                !.streamed_watch_url = watch_url,
                !.status = _preferred_status(@, streamed_row.status),
                !.sources = IF InSources("streamed", merged_row) THEN @
                            ELSE Append(@, "streamed"),
                !.external_ids = ("streamed" :> streamed_row.provider_match_id) @@ @]
        ELSE merged_row

\* lines 239-246: one accepted link of stage 4 applied to its canonical row
ApplyStreamedLink(merged_row, streamed_row, link) ==
    LET watch_url == streamed_row.streamed_watch_url
    IN  IF watch_url # <<>>
        THEN [merged_row EXCEPT
                !.streamed_watch_url = watch_url,
                !.sources = IF InSources("streamed", merged_row) THEN @
                            ELSE Append(@, "streamed"),
                !.external_ids = ("streamed" :> streamed_row.provider_match_id) @@ @]
        ELSE merged_row

RECURSIVE ApplyLinks(_, _, _, _)
\* "for link in links": each link's rows handed to Apply, in link order
ApplyLinks(Apply(_, _, _), merged, candidate_rows, links) ==
    IF links = <<>> THEN merged
    ELSE LET link == Head(links)
         IN  ApplyLinks(Apply,
                        [merged EXCEPT ![link.base_index] =
                            Apply(@, candidate_rows[link.candidate_index], link)],
                        candidate_rows, Tail(links))

\* the candidate indices of a list of links (linked_espn, linked_sofa)
LinkedCandidates(links) == {links[i].candidate_index : i \in 1..Len(links)}

\* lines 174-182, 227-235: the candidates no link claimed, appended in order
\* as canonical rows of their own
AppendUnlinked(merged, candidate_rows, linked, source, confidence) ==
    merged \o
    [i \in 1..Cardinality((1..Len(candidate_rows)) \ linked) |->
        LET index == CHOOSE k \in (1..Len(candidate_rows)) \ linked :
                        Cardinality({j \in (1..k) \ linked : TRUE}) = i
        IN  Standalone(candidate_rows[index], source, confidence)]

\* min_similarity of the three linking stages (lines 129, 184, 237)
MIN_SIMILARITY_ESPN == Hundredths(76)
MIN_SIMILARITY_SOFA == Hundredths(78)
MIN_SIMILARITY_STREAMED == Hundredths(80)

\* line 129
GoalEspnLinks(merged, espn_rows) ==
    _match_records(merged, espn_rows, MAX_MINUTES_DIFF, MIN_SIMILARITY_ESPN)
\* lines 130-182: the links applied, then the unlinked espn rows appended
FoldEspn(merged, espn_rows, links) ==
    AppendUnlinked(ApplyLinks(ApplyEspnLink, merged, espn_rows, links),
                   espn_rows, LinkedCandidates(links), "espn", Hundredths(68))
\* lines 129-182
StageEspn(merged, espn_rows) ==
    FoldEspn(merged, espn_rows, GoalEspnLinks(merged, espn_rows))

\* line 184
MergedSofaLinks(merged, sofa_rows) ==
    _match_records(merged, sofa_rows, MAX_MINUTES_DIFF, MIN_SIMILARITY_SOFA)
\* lines 185-235: the links applied, then the unlinked sofascore rows appended
FoldSofa(merged, sofa_rows, links) ==
    AppendUnlinked(ApplyLinks(ApplySofaLink, merged, sofa_rows, links),
                   sofa_rows, LinkedCandidates(links), "sofascore", Hundredths(74))
\* lines 184-235
StageSofa(merged, sofa_rows) ==
    FoldSofa(merged, sofa_rows, MergedSofaLinks(merged, sofa_rows))

\* line 237
StreamLinks(merged, streamed_rows) ==
    _match_records(merged, streamed_rows, MAX_MINUTES_DIFF, MIN_SIMILARITY_STREAMED)
\* FoldStreamed that makes canonical rows of the unlinked streamed rows
FoldStreamedKeepsUnlinked(merged, streamed_rows, links) ==
    AppendUnlinked(ApplyLinks(ApplyStreamedLink, merged, streamed_rows, links),
                   streamed_rows, LinkedCandidates(links), "streamed", Hundredths(50))

\* lines 238-246: the links applied; unlinked streamed rows are dropped
FoldStreamed(merged, streamed_rows, links) ==
    ApplyLinks(ApplyStreamedLink, merged, streamed_rows, links)
\* lines 237-246
StageStreamed(merged, streamed_rows) ==
    FoldStreamed(merged, streamed_rows, StreamLinks(merged, streamed_rows))

(***************************************************************************)
(* The final sort, lines 248-255                                           *)
(***************************************************************************)
\* the code-point order of the characters the model's names lower to
CharOrder ==
    <<" ", "-", "0","1","2","3","4","5","6","7","8","9",
      "a","b","c","d","e","f","g","h","i","j","k","l","m",
      "n","o","p","q","r","s","t","u","v","w","x","y","z", "e_acute">>
CharRank(ch) == CHOOSE i \in 1..Len(CharOrder) : CharOrder[i] = ch

RECURSIVE LexLess(_, _)
\* Python's "<" on two strings given as rank sequences
LexLess(a, b) ==
    IF b = <<>> THEN FALSE
    ELSE IF a = <<>> THEN TRUE
    ELSE IF Head(a) # Head(b) THEN Head(a) < Head(b)
    ELSE LexLess(Tail(a), Tail(b))

\* str(row.get("start_time_utc") or "") as a rank sequence: "" first, then
\* the well-formed strings (they differ from the time of day on, where the
\* zone suffixes order "" < "+00:00" < "+02:00" < "Z"), then "not-a-date"
StartText(ts) ==
    CASE ts.kind = "none" -> <<>>
      [] ts.kind = "iso" ->
           <<1, ts.local,
             CASE ts.zone = "" -> 0 [] ts.zone = "+00:00" -> 1
               [] ts.zone = "+02:00" -> 2 [] ts.zone = "Z" -> 3>>
      [] ts.kind = "malformed" -> <<2>>

\* f"{home or ''} vs {away or ''}".lower() as a rank sequence
MatchName(row) ==
    LET chars == NameChars(row.home_team) \o <<" ", "v", "s", " ">>
                 \o NameChars(row.away_team)
    IN  [i \in 1..Len(chars) |-> CharRank(LowerChar(chars[i]))]

\* _sort_key(a) < _sort_key(b)
\* Python's "<" on two tuples <<-status_rank, start, match_name>>
TupleLess(ra, sa, na, rb, sb, nb) ==
    \/ ra > rb
    \/ /\ ra = rb
       /\ \/ LexLess(sa, sb)
          \/ (sa = sb /\ LexLess(na, nb))

\* _sort_key(a) < _sort_key(b)
SortKeyLess(a, b) ==
    TupleLess(STATUS_PRIORITY(StatusOrUnknown(a.status)),
              StartText(a.start_time_utc), MatchName(a),
              STATUS_PRIORITY(StatusOrUnknown(b.status)),
              StartText(b.start_time_utc), MatchName(b))

\* InsertSorted that puts the row in front of the rows with its key
InsertSortedBeforeEquals(sorted, row) ==
    With(Cardinality({i \in 1..Len(sorted) : SortKeyLess(sorted[i], row)}),
         LAMBDA before :
        SubSeq(sorted, 1, before) \o <<row>> \o SubSeq(sorted, before + 1, Len(sorted)))

\* one row put into a sorted list, behind the rows it does not precede
InsertSorted(sorted, row) ==
    With(Cardinality({i \in 1..Len(sorted) : ~SortKeyLess(row, sorted[i])}),
         LAMBDA before :
        SubSeq(sorted, 1, before) \o <<row>> \o SubSeq(sorted, before + 1, Len(sorted)))

RECURSIVE SortFrom(_, _, _)
SortFrom(rows, i, sorted) ==
    IF i > Len(rows) THEN sorted
    ELSE SortFrom(rows, i + 1, InsertSorted(sorted, rows[i]))

\* merged.sort(key=_sort_key): a stable sort
SortMerged(rows) == SortFrom(rows, 1, <<>>)

\* merge_provider_matches(goal_rows, espn_rows, streamed_rows, sofa_rows)
merge_provider_matches(goal_rows, espn_rows, streamed_rows, sofa_rows) ==
    SortMerged(
      StageStreamed(
        StageSofa(StageEspn(SeedGoal(goal_rows), espn_rows), sofa_rows),
        streamed_rows))

(***************************************************************************)
(* service.py : LiveScoreService._filter_matches                           *)
(*                                                                         *)
(* The texts of a request and of the rows it is compared with are TLA+     *)
(* strings; TextChars gives their characters.  "" is None or "".           *)
(***************************************************************************)
\* the characters of each text the filters read
TextChars(text) ==
    CASE text = "" -> <<>>
      [] text = " " -> <<" ">>
      [] text = "*" -> <<"*">>
      [] text = "," -> <<",">>
      [] text = "all" -> <<"a","l","l">>
      [] text = "live" -> <<"l","i","v","e">>
      [] text = "finished" -> <<"f","i","n","i","s","h","e","d">>
      [] text = "unknown" -> <<"u","n","k","n","o","w","n">>
      [] text = "halftime" -> <<"h","a","l","f","t","i","m","e">>
      [] text = " LIVE , finished" ->
           <<" ","L","I","V","E"," ",",",
             " ","f","i","n","i","s","h","e","d">>
      [] text = "goal" -> <<"g","o","a","l">>
      [] text = "go" -> <<"g","o">>
      [] text = "espn" -> <<"e","s","p","n">>
      [] text = " ESPN " -> <<" ","E","S","P","N"," ">>
      [] text = "sofascore" -> <<"s","o","f","a","s","c","o","r","e">>
      [] text = "streamed" -> <<"s","t","r","e","a","m","e","d">>
      [] text = "Cup" -> <<"C","u","p">>
      [] text = " CUP " -> <<" ","C","U","P"," ">>
      [] text = "up" -> <<"u","p">>
      [] text = "League" -> <<"L","e","a","g","u","e">>

\* str.lower()
Lower(chars) == MapSeq(LowerChar, chars)

RECURSIVE StripLeft(_)
\* str.lstrip(), of spaces
StripLeft(chars) ==
    IF chars # <<>> /\ Head(chars) = " " THEN StripLeft(Tail(chars)) ELSE chars

RECURSIVE StripRight(_)
\* str.rstrip(), of spaces
StripRight(chars) ==
    IF chars # <<>> /\ chars[Len(chars)] = " "
    THEN StripRight(SubSeq(chars, 1, Len(chars) - 1))
    ELSE chars

\* str.strip()
Strip(chars) == StripRight(StripLeft(chars))

RECURSIVE SplitOn(_, _, _)
\* str.split(sep): the pieces between the separators, empty ones included;
\* cur is the piece being read
SplitOn(chars, sep, cur) ==
    IF chars = <<>> THEN <<cur>>
    ELSE IF Head(chars) = sep
         THEN <<cur>> \o SplitOn(Tail(chars), sep, <<>>)
         ELSE SplitOn(Tail(chars), sep, Append(cur, Head(chars)))

\* needle in haystack, for str
Contains(needle, haystack) ==
    \E i \in 1..(Len(haystack) - Len(needle) + 1) :
        SubSeq(haystack, i, i + Len(needle) - 1) = needle

\* lines 376, 389: (text or "all").strip().lower()
NormalizedChoice(text) ==
    Lower(Strip(TextChars(IF text = "" THEN "all" ELSE text)))

\* lines 377, 390: the text restricts, it is neither empty nor all nor *
Restricts(normalized) ==
    normalized # <<>> /\ normalized \notin {<<"a","l","l">>, <<"*">>}

\* lines 378-382
WantedStatuses(normalized_status) ==
    With(SplitOn(normalized_status, ",", <<>>),
         LAMBDA entries :
           {Lower(Strip(entries[i])) : i \in 1..Len(entries)} \ {<<>>})

\* lines 376-387
FilterStatus(matches, status) ==
    With(NormalizedChoice(status),
         LAMBDA normalized_status :
           IF Restricts(normalized_status)
           THEN With(WantedStatuses(normalized_status),
                     LAMBDA wanted_statuses :
                       SelectSeq(matches,
                                 LAMBDA row :
                                   Lower(TextChars(row.status)) \in wanted_statuses))
           ELSE matches)

\* FilterSource taking a source whose id contains the text
FilterSourceSubstring(matches, source) ==
    With(NormalizedChoice(source),
         LAMBDA normalized_source :
           IF Restricts(normalized_source)
           THEN SelectSeq(matches,
                          LAMBDA row :
                            \E i \in 1..Len(row.sources) :
                               Contains(normalized_source,
                                        Lower(TextChars(row.sources[i]))))
           ELSE matches)

\* lines 389-395
FilterSource(matches, source) ==
    With(NormalizedChoice(source),
         LAMBDA normalized_source :
           IF Restricts(normalized_source)
           THEN SelectSeq(matches,
                          LAMBDA row :
                            \E i \in 1..Len(row.sources) :
                               Lower(TextChars(row.sources[i])) = normalized_source)
           ELSE matches)

\* lines 397-404
FilterLeague(matches, league) ==
    With(Lower(Strip(TextChars(league))),
         LAMBDA needle :
           IF league # "" /\ needle # <<>>
           THEN SelectSeq(matches,
                          LAMBDA row :
                            Contains(needle, Lower(TextChars(row.competition))))
           ELSE matches)

\* lines 368-405
_filter_matches(matches, status, source, league) ==
    FilterLeague(FilterSource(FilterStatus(matches, status), source), league)

(***************************************************************************)
(* Inputs of the model                                                     *)
(***************************************************************************)
\* the most rows the four sources hand to one merge, all together
MaxRows == 3

\* a provider's row dict
Row(provider, id, teams, start, scores, status, updated, competition, venue, url) ==
    [provider |-> provider, provider_match_id |-> id,
     competition |-> competition, venue |-> venue,
     home_team |-> teams[1], away_team |-> teams[2],
     home_score |-> scores[1], away_score |-> scores[2],
     status |-> status, start_time_utc |-> start, last_updated_utc |-> updated,
     streamed_watch_url |-> url, discrepancies |-> <<>>]

\* f"https://streamed.pk/watch/{match_id}"
WatchUrl(id) == <<"https://streamed.pk/watch", id>>

\* the lists of at most n rows over a set of row shapes; the k-th row of a
\* list gets the provider-native id <<provider, k>>, shape(id) being the row
ListsOf(shapes, n) ==
    UNION {[1..k -> shapes] : k \in 0..n}

Kickoff == IsoTime(12 * 3600, "Z")
Scores(h, a) == <<h, a>>

\* who plays and when, as each source names it
GoalFixtures == { <<"Alpha FC", "Beta FC", Kickoff>>, <<"Alfa", "Beta FC", NoTime>> }
EspnFixtures == { <<"Alpha FC", "Beta", NoTime>>,
                  <<"Beta", "Alpha FC", IsoTime(12 * 3600, "+00:00")>>,
                  <<"AC Bet", "Alfa", NoTime>> }
SofaFixtures == { <<"Alpha FC", "Beta FC", IsoTime(14 * 3600, "+02:00")>>,
                  <<"Delta-SC", "FC", Kickoff>> }
StreamedFixtures == { <<"Alfa", "Beta", IsoTime(13 * 3600 + 1800, "")>> }

\* the row shapes of the score-reconciliation inputs: fixture and scores
\* vary, every row is live and was updated at kickoff
GoalShapes ==
    { [fixture |-> f, scores |-> sc, status |-> "live", updated |-> Kickoff,
       competition |-> "", url |-> FALSE] :
        f \in GoalFixtures,
        sc \in {Scores({}, {}), Scores({2}, {1}), Scores({2}, {})} }
EspnShapes ==
    { [fixture |-> f, scores |-> sc, status |-> "live", updated |-> Kickoff,
       competition |-> "Cup", url |-> FALSE] :
        f \in EspnFixtures,
        sc \in {Scores({}, {}), Scores({2}, {1}), Scores({1}, {1})} }
SofaShapes ==
    { [fixture |-> f, scores |-> sc, status |-> "live", updated |-> Kickoff,
       competition |-> "Cup", url |-> FALSE] :
        f \in SofaFixtures,
        sc \in {Scores({}, {}), Scores({2}, {1}), Scores({1}, {1})} }
StreamedShapes ==
    { [fixture |-> f, scores |-> Scores({}, {}), status |-> "unknown",
       updated |-> Kickoff, competition |-> "", url |-> u] :
        f \in StreamedFixtures, u \in BOOLEAN }

\* the rows of one source: the k-th shape of the list as that source's row
RowsOf(provider, shapes) ==
    [k \in 1..Len(shapes) |->
        LET sh == shapes[k]
            id == <<provider, k>>
        IN  Row(provider, id, <<sh.fixture[1], sh.fixture[2]>>, sh.fixture[3],
                sh.scores, sh.status, sh.updated, sh.competition, "",
                IF sh.url THEN WatchUrl(id) ELSE <<>>)]

(***************************************************************************)
(* The merge as a state machine: pc is the position in                     *)
(* merge_provider_matches, merged and the three link lists are its locals  *)
(***************************************************************************)
VARIABLES goal_rows, espn_rows, sofa_rows, streamed_rows,
          pc, merged, goal_espn_links, merged_sofa_links, stream_links

merge_vars == <<goal_rows, espn_rows, sofa_rows, streamed_rows,
                pc, merged, goal_espn_links, merged_sofa_links, stream_links>>

inputs == <<goal_rows, espn_rows, sofa_rows, streamed_rows>>

(***************************************************************************)
(* service.py : LiveScoreService, its state                                *)
(*                                                                         *)
(* providers        self.providers: provider name -> what fetch_matches    *)
(*                  of that provider can do (return rows, raise)           *)
(* _cache_payload   {} is None, {payload} a cached snapshot                *)
(* _cache_expires_at, clock     seconds; clock is time.time()              *)
(* _lock            self._lock: the thread inside a "with self._lock"      *)
(*                  block, Unlocked when there is none                     *)
(* per calling thread, the locals of its call of _refresh_if_needed:       *)
(* call_pc, force_refresh, now, future_map (the providers whose            *)
(* fetch_matches was submitted), provider_rows, provider_errors, payload,  *)
(* result (what the call returned); calls_left bounds the calls a thread   *)
(* still makes.  fetch_calls counts, per provider, the times this call has *)
(* handed the provider's fetch_matches to the executor                     *)
(***************************************************************************)
VARIABLES providers, _cache_payload, _cache_expires_at, _lock, clock,
          call_pc, force_refresh, now, future_map, fetch_calls,
          provider_rows, provider_errors, payload, result, calls_left

\* get_scores: requests are the argument lists a caller may pass, response
\* the dict get_scores returned to a thread.  object_graph names, for the
\* cache and for each thread's payload, result, response and gated rows, the
\* graph of Python objects the reference points into: two references with
\* one graph share their dicts and lists, a deepcopy starts a new graph
VARIABLES requests, response, object_graph

cache_vars == <<_cache_payload, _cache_expires_at>>

call_vars == <<call_pc, force_refresh, now, future_map, fetch_calls,
               provider_rows, provider_errors, payload, result, calls_left>>

reply_vars == <<requests, response, object_graph>>

service_vars == <<providers, cache_vars, _lock, clock, call_vars, reply_vars>>

vars == <<merge_vars, service_vars>>

\* the calling threads
NumThreads == 2
Threads == 1..NumThreads

\* the calls one thread makes at most
MaxCalls == 2

\* the clock stops here
MaxClock == 2

\* line 266: self.cache_seconds = max(0, cache_seconds), for cache_seconds=1
cache_seconds == Max(0, 1)

\* line 269: self.max_live_stale_seconds = max(0, max_live_stale_seconds),
\* for max_live_stale_seconds=1
max_live_stale_seconds == Max(0, 1)

\* line 276: threading.Lock(), not acquired
Unlocked == 0

\* a dict without keys
EmptyDict == [name \in {} |-> <<>>]

\* no object
NoObject == <<>>

\* the references of a service nobody has called yet
NoGraphs ==
    [cache |-> NoObject,
     payload |-> [t \in Threads |-> NoObject],
     result |-> [t \in Threads |-> NoObject],
     response |-> [t \in Threads |-> NoObject],
     candidates |-> [t \in Threads |-> NoObject]]

\* lines 266-278: the service as constructed over the given providers, and
\* the calls each thread is going to make
Constructed(configured, calls, asked) ==
    /\ providers = configured
    /\ _cache_payload = {}
    /\ _cache_expires_at = 0
    /\ _lock = Unlocked
    /\ clock = 0
    /\ call_pc = [t \in Threads |-> "idle"]
    /\ force_refresh = [t \in Threads |-> FALSE]
    /\ now = [t \in Threads |-> 0]
    /\ future_map = [t \in Threads |-> {}]
    /\ fetch_calls = [t \in Threads |-> EmptyDict]
    /\ provider_rows = [t \in Threads |-> EmptyDict]
    /\ provider_errors = [t \in Threads |-> EmptyDict]
    /\ payload = [t \in Threads |-> {}]
    /\ result = [t \in Threads |-> {}]
    /\ calls_left = calls
    /\ requests = asked
    /\ response = [t \in Threads |-> {}]
    /\ object_graph = NoGraphs

\* merge_provider_matches called directly: a service without providers that
\* nobody calls
NoService == Constructed(EmptyDict, [t \in Threads |-> 0], {})

\* the call merge_provider_matches(goal_rows, espn_rows, streamed_rows, sofa_rows)
InitMerge(goal_shapes, espn_shapes, sofa_shapes, streamed_shapes) ==
    /\ \E g \in ListsOf(goal_shapes, MaxRows) :
       \E e \in ListsOf(espn_shapes, MaxRows - Len(g)) :
       \E s \in ListsOf(sofa_shapes, MaxRows - Len(g) - Len(e)) :
       \E t \in ListsOf(streamed_shapes, MaxRows - Len(g) - Len(e) - Len(s)) :
          /\ goal_rows = RowsOf("goal", g)
          /\ espn_rows = RowsOf("espn", e)
          /\ sofa_rows = RowsOf("sofascore", s)
          /\ streamed_rows = RowsOf("streamed", t)
    /\ pc = "seed"
    /\ merged = <<>>
    /\ goal_espn_links = <<>>
    /\ merged_sofa_links = <<>>
    /\ stream_links = <<>>
    /\ NoService

Init == InitMerge(GoalShapes, EspnShapes, SofaShapes, StreamedShapes)

\* the row shapes of the status and last-update inputs: one fixture per
\* source, all scores 2-1, status and last update vary
MetaShapes(fixture, statuses, updates, url) ==
    { [fixture |-> fixture, scores |-> Scores({2}, {1}), status |-> st,
       updated |-> up, competition |-> "", url |-> url] :
        st \in statuses, up \in updates }

InitMeta ==
    InitMerge(
      MetaShapes(<<"Alpha FC", "Beta FC", Kickoff>>,
                 {"live", "finished", "unknown", "halftime"},
                 {MalformedTime, IsoTime(12 * 3600, "Z")}, FALSE),
      MetaShapes(<<"Alpha FC", "Beta", NoTime>>,
                 {"live", "finished", "unknown", "halftime"},
                 {NoTime, IsoTime(13 * 3600, "+02:00")}, FALSE),
      MetaShapes(<<"Alpha FC", "Beta FC", Kickoff>>, {"live", "finished", "unknown"},
                 {IsoTime(12 * 3600 + 1800, "")}, FALSE),
      MetaShapes(<<"Alfa", "Beta", Kickoff>>, {"live", "unknown"},
                 {IsoTime(14 * 3600, "Z"), IsoTime(11 * 3600, "Z")}, TRUE))

\* lines 120-127
Seed ==
    /\ pc = "seed"
    /\ merged' = SeedGoal(goal_rows)
    /\ pc' = "espn"
    /\ UNCHANGED <<inputs, goal_espn_links, merged_sofa_links, stream_links, service_vars>>

\* lines 129-182
LinkEspn ==
    /\ pc = "espn"
    /\ goal_espn_links' = GoalEspnLinks(merged, espn_rows)
    /\ merged' = FoldEspn(merged, espn_rows, goal_espn_links')
    /\ pc' = "sofascore"
    /\ UNCHANGED <<inputs, merged_sofa_links, stream_links, service_vars>>

\* lines 184-235
LinkSofa ==
    /\ pc = "sofascore"
    /\ merged_sofa_links' = MergedSofaLinks(merged, sofa_rows)
    /\ merged' = FoldSofa(merged, sofa_rows, merged_sofa_links')
    /\ pc' = "streamed"
    /\ UNCHANGED <<inputs, goal_espn_links, stream_links, service_vars>>

\* lines 237-246
LinkStreamed ==
    /\ pc = "streamed"
    /\ stream_links' = StreamLinks(merged, streamed_rows)
    /\ merged' = FoldStreamed(merged, streamed_rows, stream_links')
    /\ pc' = "sort"
    /\ UNCHANGED <<inputs, goal_espn_links, merged_sofa_links, service_vars>>

\* lines 248-256
SortAndReturn ==
    /\ pc = "sort"
    /\ merged' = SortMerged(merged)
    /\ pc' = "done"
    /\ UNCHANGED <<inputs, goal_espn_links, merged_sofa_links, stream_links, service_vars>>

Next == Seed \/ LinkEspn \/ LinkSofa \/ LinkStreamed \/ SortAndReturn

Spec == Init /\ [][Next]_vars

\* the merge on the status and last-update inputs
SpecMeta == InitMeta /\ [][Next]_vars

\* the row shapes of the inputs of the sort: two fixtures that do not link,
\* their statuses and the texts of their start times vary: none, a time with
\* a Z, the same instant and an earlier one written with an offset, and a
\* text that is no time
SortShapes(teams, starts) ==
    { [fixture |-> <<teams[1], teams[2], start>>, scores |-> Scores({}, {}),
       status |-> st, updated |-> Kickoff, competition |-> "", url |-> FALSE] :
        start \in starts, st \in {"live", "finished"} }

InitSort ==
    InitMerge(SortShapes(<<"Delta-SC", "FC">>, {Kickoff, NoTime}), {},
              SortShapes(<<"Alpha FC", "Beta FC">>,
                         {IsoTime(14 * 3600, "+02:00"), IsoTime(13 * 3600, "+02:00"),
                          MalformedTime}),
              {})

\* the merge on the inputs of the sort
SpecSort == InitSort /\ [][Next]_vars

\* the row shapes of the inputs of the record linker: every row says 2-1
\* and is live, who plays and when varies
LinkerShapes(fixtures) ==
    { [fixture |-> f, scores |-> Scores({2}, {1}), status |-> "live",
       updated |-> Kickoff, competition |-> "", url |-> FALSE] : f \in fixtures }

\* base rows: a fixture at noon, the same fixture spelt differently and
\* without a start time, and a row whose feed named no teams
LinkerGoalFixtures ==
    { <<"Alpha FC", "Beta FC", Kickoff>>, <<"Alfa", "Beta FC", NoTime>>,
      <<"", "", NoTime>> }

\* candidates: the fixture at the same instant, mirrored and exactly three
\* hours later, one minute more than three hours later, with a start time
\* that is no time, ninety minutes later under a near name, a row without
\* team names, and another fixture
LinkerEspnFixtures ==
    { <<"Alpha FC", "Beta", IsoTime(12 * 3600, "+00:00")>>,
      <<"Beta", "Alpha FC", IsoTime(15 * 3600, "Z")>>,
      <<"Alpha FC", "Beta", IsoTime(15 * 3600 + 60, "Z")>>,
      <<"Alpha FC", "Beta", MalformedTime>>,
      <<"Alfa", "Beta", IsoTime(13 * 3600 + 1800, "")>>,
      <<"", "", NoTime>>,
      <<"Delta-SC", "FC", Kickoff>> }

LinkerSofaFixtures ==
    { <<"Beta FC", "Alpha FC", IsoTime(17 * 3600 + 60, "+02:00")>>,
      <<"Alpha FC", "Beta FC", IsoTime(8 * 3600, "Z")>> }

\* merge_provider_matches called with up to MaxRows - 1 goal rows, as many
\* espn rows and up to MaxRows - 2 sofascore rows
InitLinker ==
    /\ \E g \in ListsOf(LinkerShapes(LinkerGoalFixtures), MaxRows - 1) :
       \E e \in ListsOf(LinkerShapes(LinkerEspnFixtures), MaxRows - 1) :
       \E s \in ListsOf(LinkerShapes(LinkerSofaFixtures), MaxRows - 2) :
          /\ goal_rows = RowsOf("goal", g)
          /\ espn_rows = RowsOf("espn", e)
          /\ sofa_rows = RowsOf("sofascore", s)
          /\ streamed_rows = <<>>
    /\ pc = "seed"
    /\ merged = <<>>
    /\ goal_espn_links = <<>>
    /\ merged_sofa_links = <<>>
    /\ stream_links = <<>>
    /\ NoService

\* the merge on the inputs of the record linker
SpecLinker == InitLinker /\ [][Next]_vars

\* the row shapes of the inputs with the sides exchanged: one fixture, which
\* espn and sofascore give either way round, and scores that are missing,
\* 2-1 or 1-2
MirrorShapes(fixtures, scores) ==
    { [fixture |-> f, scores |-> sc, status |-> "live", updated |-> Kickoff,
       competition |-> "", url |-> FALSE] : f \in fixtures, sc \in scores }

InitMirror ==
    InitMerge(
      MirrorShapes({<<"Alpha FC", "Beta FC", Kickoff>>},
                   {Scores({2}, {1}), Scores({}, {}), Scores({2}, {})}),
      MirrorShapes({<<"Beta", "Alpha FC", Kickoff>>, <<"Alpha FC", "Beta", Kickoff>>},
                   {Scores({1}, {2}), Scores({2}, {1}), Scores({}, {})}),
      MirrorShapes({<<"Beta FC", "Alpha FC", Kickoff>>, <<"Alpha FC", "Beta FC", Kickoff>>},
                   {Scores({1}, {2}), Scores({2}, {1})}),
      {})

\* the merge on the inputs with the sides exchanged
SpecMirror == InitMirror /\ [][Next]_vars

(***************************************************************************)
(* service.py : LiveScoreService._refresh_if_needed                        *)
(***************************************************************************)
\* what one call of a provider's fetch_matches does: return rows, or raise
\* an exception exc with str(exc) = message
Returns(rows) == [raises |-> FALSE, rows |-> rows, message |-> ""]
Raises(message) == [raises |-> TRUE, rows |-> <<>>, message |-> message]

\* the rows of the static providers, tests/footballapi/test_service.py
StaticRows(name) ==
    CASE name = "goal" ->
           RowsOf("goal", <<[fixture |-> <<"Alpha FC", "Beta FC", Kickoff>>,
                             scores |-> Scores({2}, {1}), status |-> "live",
                             updated |-> Kickoff, competition |-> "Cup",
                             url |-> FALSE]>>)
      [] name = "espn" ->
           RowsOf("espn", <<[fixture |-> <<"Alpha FC", "Beta", NoTime>>,
                             scores |-> Scores({2}, {1}), status |-> "live",
                             updated |-> Kickoff, competition |-> "Cup",
                             url |-> FALSE]>>)
      [] name = "sofascore" ->
           RowsOf("sofascore", <<[fixture |-> <<"Delta-SC", "FC", Kickoff>>,
                                  scores |-> Scores({1}, {1}), status |-> "finished",
                                  updated |-> Kickoff, competition |-> "",
                                  url |-> FALSE]>>)
      [] name = "streamed" ->
           RowsOf("streamed", <<[fixture |-> <<"Alfa", "Beta", Kickoff>>,
                                 scores |-> Scores({}, {}), status |-> "unknown",
                                 updated |-> Kickoff, competition |-> "",
                                 url |-> TRUE]>>)

\* four providers that return their rows or raise, with or without a message
FlakyProviders ==
    [name \in {"goal", "espn", "sofascore", "streamed"} |->
        {Returns(StaticRows(name)), Raises("HTTP 503"), Raises("")}]

\* dict.get(key, default)
Get(dict, key, default) == IF key \in DOMAIN dict THEN dict[key] ELSE default

\* dict[key] = value
Put(dict, key, value) ==
    [k \in DOMAIN dict \cup {key} |-> IF k = key THEN value ELSE dict[k]]

\* lines 353-357: one provider's entry of payload["providers"]; error is {}
\* for None and {text} for a str
ProviderStatus(rows, errors, name) ==
    [ok |-> name \notin DOMAIN errors,
     count |-> Len(Get(rows, name, <<>>)),
     error |-> IF name \in DOMAIN errors THEN {errors[name]} ELSE {}]

\* lines 342-360: the snapshot built from the rows and errors collected
BuildSnapshot(rows, errors, generated_at) ==
    With(merge_provider_matches(Get(rows, "goal", <<>>), Get(rows, "espn", <<>>),
                                Get(rows, "streamed", <<>>),
                                Get(rows, "sofascore", <<>>)),
         LAMBDA merged_rows :
           [generated_at_utc |-> IsoTime(generated_at, "Z"),
            matches |-> merged_rows,
            count |-> Len(merged_rows),
            providers |-> [name \in DOMAIN rows \cup DOMAIN errors |->
                              ProviderStatus(rows, errors, name)]])

(***************************************************************************)
(* service.py : LiveScoreService._apply_quality_gate                       *)
(***************************************************************************)
\* line 434: f"older_than_{self.max_live_stale_seconds}_seconds"
OlderThan(seconds) == <<"older_than_", seconds, "_seconds">>

\* IsStale with a row as old as the threshold stale already
IsStaleAtThreshold(row, age_seconds) ==
    /\ Lower(TextChars(StatusOrUnknown(row.status))) = <<"l","i","v","e">>
    /\ \/ age_seconds = {}
       \/ The(age_seconds) >= max_live_stale_seconds

\* lines 429-430: status = str(candidate.get("status") or "unknown").lower()
\* and is_stale
IsStale(row, age_seconds) ==
    /\ Lower(TextChars(StatusOrUnknown(row.status))) = <<"l","i","v","e">>
    /\ \/ age_seconds = {}
       \/ The(age_seconds) > max_live_stale_seconds

\* lines 422-437: the copy of a row with its age, staleness and reason;
\* last_update_age_seconds is {} for None
GateCandidate(row, reference_time) ==
    With(parse_iso_utc(row.last_updated_utc),
         LAMBDA last_updated :
           With(IF last_updated # {}
                THEN {Max(0, reference_time - The(last_updated))}
                ELSE {},
                LAMBDA age_seconds :
                  With(IsStale(row, age_seconds),
                       LAMBDA is_stale :
                         [last_update_age_seconds |-> age_seconds,
                          is_stale |-> is_stale]
                         @@ (IF is_stale
                             THEN [staleness_reason |->
                                      IF age_seconds = {}
                                      THEN <<"missing_last_update">>
                                      ELSE OlderThan(max_live_stale_seconds)]
                             ELSE EmptyDict)
                         @@ row)))

\* GateStep that drops a stale row whatever include_stale says
GateStepStaleAlways(out, candidate, include_stale, include_conflicts) ==
    IF candidate.verification = "score_conflict" /\ ~include_conflicts
    THEN [out EXCEPT !.dropped_conflicts = @ + 1]
    ELSE IF candidate.is_stale
         THEN [out EXCEPT !.dropped_stale = @ + 1]
         ELSE [out EXCEPT !.kept = Append(@, candidate)]

\* GateStep that looks at staleness before it looks at the conflict
GateStepStaleFirst(out, candidate, include_stale, include_conflicts) ==
    IF candidate.is_stale /\ ~include_stale
    THEN [out EXCEPT !.dropped_stale = @ + 1]
    ELSE IF candidate.verification = "score_conflict" /\ ~include_conflicts
         THEN [out EXCEPT !.dropped_conflicts = @ + 1]
         ELSE [out EXCEPT !.kept = Append(@, candidate)]

\* GateStep that counts a dropped conflict that is stale too under both
\* reasons
GateStepCountsBoth(out, candidate, include_stale, include_conflicts) ==
    IF candidate.verification = "score_conflict" /\ ~include_conflicts
    THEN [out EXCEPT !.dropped_conflicts = @ + 1,
                     !.dropped_stale = IF candidate.is_stale /\ ~include_stale
                                       THEN @ + 1 ELSE @]
    ELSE IF candidate.is_stale /\ ~include_stale
         THEN [out EXCEPT !.dropped_stale = @ + 1]
         ELSE [out EXCEPT !.kept = Append(@, candidate)]

\* lines 439-447: drop the candidate as a conflict, else drop it as stale,
\* else keep it; out is kept, dropped_stale and dropped_conflicts so far
GateStep(out, candidate, include_stale, include_conflicts) ==
    IF candidate.verification = "score_conflict" /\ ~include_conflicts
    THEN [out EXCEPT !.dropped_conflicts = @ + 1]
    ELSE IF candidate.is_stale /\ ~include_stale
         THEN [out EXCEPT !.dropped_stale = @ + 1]
         ELSE [out EXCEPT !.kept = Append(@, candidate)]

RECURSIVE GateFrom(_, _, _, _, _, _)
\* lines 421-447: the loop over the rows from the index on
GateFrom(matches, index, reference_time, include_stale, include_conflicts, out) ==
    IF index > Len(matches) THEN out
    ELSE GateFrom(matches, index + 1, reference_time,
                  include_stale, include_conflicts,
                  GateStep(out, GateCandidate(matches[index], reference_time),
                           include_stale, include_conflicts))

\* ReferenceTime that is the time of the read, whatever the snapshot says
ReferenceTimeOfRead(generated_at_utc, utc_now) ==
    parse_iso_utc(IsoTime(utc_now, "Z"))

\* lines 415-417: parse_iso_utc(generated_at_utc) or parse_iso_utc(utc_now_iso())
ReferenceTime(generated_at_utc, utc_now) ==
    IF parse_iso_utc(generated_at_utc) # {}
    THEN parse_iso_utc(generated_at_utc)
    ELSE parse_iso_utc(IsoTime(utc_now, "Z"))

\* lines 407-449
_apply_quality_gate(matches, generated_at_utc, include_stale, include_conflicts, utc_now) ==
    With(ReferenceTime(generated_at_utc, utc_now),
         LAMBDA reference_time :
           IF reference_time = {}
           THEN [kept |-> matches, dropped_stale |-> 0, dropped_conflicts |-> 0]
           ELSE GateFrom(matches, 1, The(reference_time),
                         include_stale, include_conflicts,
                         [kept |-> <<>>, dropped_stale |-> 0,
                          dropped_conflicts |-> 0]))

(***************************************************************************)
(* service.py : LiveScoreService.get_scores                                *)
(***************************************************************************)
\* the arguments of one call of get_scores
Request(status, source, league, include_stale, include_conflicts) ==
    [status |-> status, source |-> source, league |-> league,
     include_stale |-> include_stale, include_conflicts |-> include_conflicts]

\* lines 299-313: the dict returned, from the snapshot and the gate's result
Answer(snapshot, request, gate) ==
    [matches |-> gate.kept,
     count |-> Len(gate.kept),
     quality |-> [max_live_stale_seconds |-> max_live_stale_seconds,
                  include_stale |-> request.include_stale,
                  include_conflicts |-> request.include_conflicts,
                  dropped_stale_count |-> gate.dropped_stale,
                  dropped_conflict_count |-> gate.dropped_conflicts],
     filters |-> [status |-> request.status, source |-> request.source,
                  league |-> request.league]]
    @@ snapshot

\* lines 290-314: filter, gate, and build the dict returned
GetScoresResponse(snapshot, request, utc_now) ==
    Answer(snapshot, request,
           _apply_quality_gate(_filter_matches(snapshot.matches, request.status,
                                               request.source, request.league),
                               snapshot.generated_at_utc,
                               request.include_stale, request.include_conflicts,
                               utc_now))

\* lines 421-437 working on the rows of a snapshot themselves, not on copies:
\* the rows that pass the filters carry the gate's annotations
Annotated(snapshot, request, utc_now) ==
    With(ReferenceTime(snapshot.generated_at_utc, utc_now),
         LAMBDA reference_time :
           [snapshot EXCEPT !.matches =
               [i \in DOMAIN @ |->
                   IF reference_time # {}
                      /\ _filter_matches(<<@[i]>>, request.status, request.source,
                                         request.league) # <<>>
                   THEN GateCandidate(@[i], The(reference_time))
                   ELSE @[i]]])

\* Returning the object itself where the code returns copy.deepcopy of it
SameObject(graph, fresh) == graph

\* copy.deepcopy(obj): the copy's objects are new ones, named fresh
deepcopy(graph, fresh) == fresh

\* two references point into one graph of objects
Shared(graph, written) == graph # NoObject /\ graph = written

(***************************************************************************)
(* service.py : LiveScoreService._refresh_if_needed                        *)
(***************************************************************************)
\* lines 289, 316-317: a thread calls get_scores, which calls
\* _refresh_if_needed(force_refresh); the call reads the clock
Enter(t, force) ==
    /\ call_pc[t] \in {"idle", "responded", "mutated"}
    /\ UNCHANGED _lock
    /\ calls_left[t] > 0
    /\ calls_left' = [calls_left EXCEPT ![t] = @ - 1]
    /\ call_pc' = [call_pc EXCEPT ![t] = "lock"]
    /\ force_refresh' = [force_refresh EXCEPT ![t] = force]
    /\ now' = [now EXCEPT ![t] = clock]
    /\ future_map' = [future_map EXCEPT ![t] = {}]
    /\ fetch_calls' = [fetch_calls EXCEPT ![t] = EmptyDict]
    /\ provider_rows' = [provider_rows EXCEPT ![t] = EmptyDict]
    /\ provider_errors' = [provider_errors EXCEPT ![t] = EmptyDict]
    /\ payload' = [payload EXCEPT ![t] = {}]
    /\ result' = [result EXCEPT ![t] = {}]
    /\ response' = [response EXCEPT ![t] = {}]
    /\ object_graph' = [object_graph EXCEPT !.payload[t] = NoObject,
                                            !.result[t] = NoObject,
                                            !.response[t] = NoObject,
                                            !.candidates[t] = NoObject]
    /\ UNCHANGED <<merge_vars, providers, cache_vars, clock, requests>>

\* lines 319-323
IsCacheHit(t) ==
    /\ ~force_refresh[t]
    /\ _cache_payload # {}
    /\ now[t] < _cache_expires_at

\* CacheHit that also pushes the deadline back by the time to live
CacheHitSliding(t) ==
    /\ call_pc[t] = "lock"
    /\ _lock = Unlocked /\ _lock' = Unlocked
    /\ IsCacheHit(t)
    /\ result' = [result EXCEPT ![t] = _cache_payload]
    /\ object_graph' =
         [object_graph EXCEPT !.result[t] =
             deepcopy(object_graph.cache, <<"line 324", t, calls_left[t]>>)]
    /\ call_pc' = [call_pc EXCEPT ![t] = "returned"]
    /\ _cache_expires_at' = _cache_expires_at + cache_seconds
    /\ UNCHANGED <<merge_vars, providers, _cache_payload, clock, force_refresh, now,
                   future_map, fetch_calls, provider_rows, provider_errors, payload,
                   calls_left,
                   requests, response>>

\* lines 318-324: under the lock, the cached snapshot is fresh: return a copy
CacheHit(t) ==
    /\ call_pc[t] = "lock"
    /\ _lock = Unlocked /\ _lock' = Unlocked
    /\ IsCacheHit(t)
    /\ result' = [result EXCEPT ![t] = _cache_payload]
    /\ object_graph' =
         [object_graph EXCEPT !.result[t] =
             deepcopy(object_graph.cache, <<"line 324", t, calls_left[t]>>)]
    /\ call_pc' = [call_pc EXCEPT ![t] = "returned"]
    /\ UNCHANGED <<merge_vars, providers, cache_vars, clock, force_refresh, now,
                   future_map, fetch_calls, provider_rows, provider_errors, payload,
                   calls_left,
                   requests, response>>

\* CacheMiss of a single-flight service: while another call's refresh is in
\* flight, a call that misses waits for it
CacheMissSingleFlight(t) ==
    /\ call_pc[t] = "lock"
    /\ _lock = Unlocked /\ _lock' = Unlocked
    /\ ~IsCacheHit(t)
    /\ \A u \in Threads \ {t} : call_pc[u] \notin {"fetching", "install"}
    /\ future_map' = [future_map EXCEPT ![t] = DOMAIN providers]
    /\ fetch_calls' = [fetch_calls EXCEPT ![t] = [name \in DOMAIN providers |-> 1]]
    /\ call_pc' = [call_pc EXCEPT ![t] = "fetching"]
    /\ UNCHANGED <<merge_vars, providers, cache_vars, clock, force_refresh, now,
                   provider_rows, provider_errors, payload, result, calls_left,
                   reply_vars>>

\* CacheMiss that stays inside the "with self._lock" block of line 318
\* while the fetches run
CacheMissHoldsLock(t) ==
    /\ call_pc[t] = "lock"
    /\ _lock = Unlocked /\ _lock' = t
    /\ ~IsCacheHit(t)
    /\ future_map' = [future_map EXCEPT ![t] = DOMAIN providers]
    /\ fetch_calls' = [fetch_calls EXCEPT ![t] = [name \in DOMAIN providers |-> 1]]
    /\ call_pc' = [call_pc EXCEPT ![t] = "fetching"]
    /\ UNCHANGED <<merge_vars, providers, cache_vars, clock, force_refresh, now,
                   provider_rows, provider_errors, payload, result, calls_left,
                   reply_vars>>

\* lines 318-330: otherwise leave the lock and submit every provider's
\* fetch_matches to the executor
CacheMiss(t) ==
    /\ call_pc[t] = "lock"
    /\ _lock = Unlocked /\ _lock' = Unlocked
    /\ ~IsCacheHit(t)
    /\ future_map' = [future_map EXCEPT ![t] = DOMAIN providers]
    /\ fetch_calls' = [fetch_calls EXCEPT ![t] = [name \in DOMAIN providers |-> 1]]
    /\ call_pc' = [call_pc EXCEPT ![t] = "fetching"]
    /\ UNCHANGED <<merge_vars, providers, cache_vars, clock, force_refresh, now,
                   provider_rows, provider_errors, payload, result, calls_left,
                   reply_vars>>

\* FetchCompleted that hands a provider whose fetch raised to the executor
\* once more before it records the failure
FetchCompletedRetriesOnce(t, name) ==
    /\ call_pc[t] = "fetching"
    /\ UNCHANGED _lock
    /\ name \in future_map[t] \ DOMAIN provider_rows[t]
    /\ \E outcome \in providers[name] :
         IF outcome.raises /\ fetch_calls[t][name] = 1
         THEN /\ fetch_calls' = [fetch_calls EXCEPT ![t][name] = 2]
              /\ UNCHANGED <<provider_rows, provider_errors>>
         ELSE /\ provider_rows' =
                   [provider_rows EXCEPT ![t] = Put(@, name, outcome.rows)]
              /\ provider_errors' =
                   [provider_errors EXCEPT ![t] =
                       IF outcome.raises THEN Put(@, name, outcome.message) ELSE @]
              /\ UNCHANGED fetch_calls
    /\ UNCHANGED <<merge_vars, providers, cache_vars, clock, call_pc, force_refresh,
                   now, future_map, payload, result, calls_left, reply_vars>>

\* FetchCompleted without the "except Exception" of line 336: the exception
\* of future.result() leaves _refresh_if_needed and get_scores
FetchCompletedUncaught(t, name) ==
    /\ UNCHANGED _lock
    /\ name \in future_map[t] \ DOMAIN provider_rows[t]
    /\ \E outcome \in providers[name] :
         /\ call_pc[t] = "fetching"
         /\ provider_rows' =
              [provider_rows EXCEPT ![t] = Put(@, name, outcome.rows)]
         /\ call_pc' = [call_pc EXCEPT ![t] =
                           IF outcome.raises THEN "raised" ELSE @]
    /\ UNCHANGED <<merge_vars, providers, cache_vars, clock, force_refresh,
                   now, future_map, fetch_calls, provider_errors, payload, result,
                   calls_left, reply_vars>>

\* lines 331-340: one future completes, in any order; data is its rows, an
\* exception leaves [] and str(exc)
FetchCompleted(t, name) ==
    /\ call_pc[t] = "fetching"
    /\ UNCHANGED _lock
    /\ name \in future_map[t] \ DOMAIN provider_rows[t]
    /\ \E outcome \in providers[name] :
         /\ provider_rows' =
              [provider_rows EXCEPT ![t] = Put(@, name, outcome.rows)]
         /\ provider_errors' =
              [provider_errors EXCEPT ![t] =
                  IF outcome.raises THEN Put(@, name, outcome.message) ELSE @]
    /\ UNCHANGED <<merge_vars, providers, cache_vars, clock, call_pc, force_refresh,
                   now, future_map, fetch_calls, payload, result, calls_left, reply_vars>>

\* the orders in which the futures of the providers names can complete
CompletionOrders(names) ==
    {order \in [1..Cardinality(names) -> names] :
        \A i, j \in DOMAIN order : i # j => order[i] # order[j]}

\* the rows of the k-th provider of an order, [] when there is none
RowsOfKth(rows, order, k) ==
    IF k \in DOMAIN order THEN Get(rows, order[k], <<>>) ELSE <<>>

\* BuildPayload that hands the rows to the merge in the order the futures
\* completed in: the first to complete is the anchor, and so on
BuildPayloadInCompletionOrder(t) ==
    /\ call_pc[t] = "fetching"
    /\ UNCHANGED _lock
    /\ DOMAIN provider_rows[t] = future_map[t]
    /\ \E order \in CompletionOrders(future_map[t]) :
         payload' = [payload EXCEPT ![t] =
            {[BuildSnapshot(provider_rows[t], provider_errors[t], clock)
                EXCEPT !.matches =
                   merge_provider_matches(RowsOfKth(provider_rows[t], order, 1),
                                          RowsOfKth(provider_rows[t], order, 2),
                                          RowsOfKth(provider_rows[t], order, 4),
                                          RowsOfKth(provider_rows[t], order, 3))]}]
    /\ object_graph' =
         [object_graph EXCEPT !.payload[t] = <<"line 352", t, calls_left[t]>>]
    /\ call_pc' = [call_pc EXCEPT ![t] = "install"]
    /\ UNCHANGED <<merge_vars, providers, cache_vars, clock, force_refresh, now,
                   future_map, fetch_calls, provider_rows, provider_errors, result,
                   calls_left, requests, response>>

\* lines 342-360: every future is done; merge and build the snapshot, a dict
\* of new objects
BuildPayload(t) ==
    /\ call_pc[t] = "fetching"
    /\ UNCHANGED _lock
    /\ DOMAIN provider_rows[t] = future_map[t]
    /\ payload' = [payload EXCEPT ![t] =
                      {BuildSnapshot(provider_rows[t], provider_errors[t], clock)}]
    /\ object_graph' =
         [object_graph EXCEPT !.payload[t] = <<"line 352", t, calls_left[t]>>]
    /\ call_pc' = [call_pc EXCEPT ![t] = "install"]
    /\ UNCHANGED <<merge_vars, providers, cache_vars, clock, force_refresh, now,
                   future_map, fetch_calls, provider_rows, provider_errors, result,
                   calls_left,
                   requests, response>>

\* Install that leaves the deadline for later
InstallSnapshotOnly(t) ==
    /\ call_pc[t] = "install"
    /\ _lock = Unlocked /\ _lock' = Unlocked
    /\ _cache_payload' = payload[t]
    /\ result' = [result EXCEPT ![t] = payload[t]]
    /\ object_graph' =
         [object_graph EXCEPT
             !.cache = object_graph.payload[t],
             !.result[t] = deepcopy(object_graph.payload[t],
                                    <<"line 365", t, calls_left[t]>>)]
    /\ call_pc' = [call_pc EXCEPT ![t] = "returned"]
    /\ UNCHANGED <<merge_vars, providers, _cache_expires_at, clock, force_refresh, now,
                   future_map, fetch_calls, provider_rows, provider_errors, payload,
                   calls_left,
                   requests, response>>

\* Install that keeps the cached snapshot when it was generated later than
\* the one the call built
InstallIfNewer(t) ==
    /\ call_pc[t] = "install"
    /\ _lock = Unlocked /\ _lock' = Unlocked
    /\ _cache_payload' =
         IF /\ _cache_payload # {}
            /\ The(parse_iso_utc(The(_cache_payload).generated_at_utc))
                 > The(parse_iso_utc(The(payload[t]).generated_at_utc))
         THEN _cache_payload ELSE payload[t]
    /\ _cache_expires_at' = clock + cache_seconds
    /\ result' = [result EXCEPT ![t] = payload[t]]
    /\ object_graph' =
         [object_graph EXCEPT
             !.cache = object_graph.payload[t],
             !.result[t] = deepcopy(object_graph.payload[t],
                                    <<"line 365", t, calls_left[t]>>)]
    /\ call_pc' = [call_pc EXCEPT ![t] = "returned"]
    /\ UNCHANGED <<merge_vars, providers, clock, force_refresh, now, future_map,
                   fetch_calls,
                   provider_rows, provider_errors, payload, calls_left,
                   requests, response>>

\* lines 362-365: under the lock, install the snapshot and its deadline and
\* return a copy
Install(t) ==
    /\ call_pc[t] = "install"
    /\ _lock = Unlocked /\ _lock' = Unlocked
    /\ _cache_payload' = payload[t]
    /\ _cache_expires_at' = clock + cache_seconds
    /\ result' = [result EXCEPT ![t] = payload[t]]
    /\ object_graph' =
         [object_graph EXCEPT
             !.cache = object_graph.payload[t],
             !.result[t] = deepcopy(object_graph.payload[t],
                                    <<"line 365", t, calls_left[t]>>)]
    /\ call_pc' = [call_pc EXCEPT ![t] = "returned"]
    /\ UNCHANGED <<merge_vars, providers, clock, force_refresh, now, future_map,
                   fetch_calls,
                   provider_rows, provider_errors, payload, calls_left,
                   requests, response>>

\* what a reference into graph reads after get_scores wrote the dict
\* returned, answer, into the graph top and the gate's annotations into the
\* graph rows
AfterGate(snapshots, graph, top, rows, answer, request, utc_now) ==
    IF Shared(graph, top) THEN {answer}
    ELSE IF Shared(graph, rows)
         THEN {Annotated(snapshot, request, utc_now) : snapshot \in snapshots}
         ELSE snapshots

\* lines 290-314 for the dict answer that get_scores builds in the graph top,
\* over gated rows in the graph rows
RespondWith(t, request, answer, top, rows) ==
    /\ response' = [u \in Threads |->
                       IF u = t THEN {answer}
                       ELSE AfterGate(response[u], object_graph.response[u],
                                      top, rows, answer, request, clock)]
    /\ _cache_payload' = AfterGate(_cache_payload, object_graph.cache,
                                   top, rows, answer, request, clock)
    /\ payload' = [u \in Threads |->
                      AfterGate(payload[u], object_graph.payload[u],
                                top, rows, answer, request, clock)]
    /\ result' = [u \in Threads |->
                     AfterGate(result[u], object_graph.result[u],
                               top, rows, answer, request, clock)]
    /\ object_graph' = [object_graph EXCEPT !.response[t] = top,
                                            !.candidates[t] = rows]

\* lines 290-314: the rest of get_scores, after _refresh_if_needed returned:
\* filter the rows, gate copies of them, and return a copy of the snapshot
\* with the rows kept
Respond(t, request) ==
    /\ call_pc[t] = "returned"
    /\ UNCHANGED _lock
    /\ RespondWith(t, request,
                   GetScoresResponse(The(result[t]), request, clock),
                   deepcopy(object_graph.result[t],
                            <<"line 299", t, calls_left[t]>>),
                   deepcopy(object_graph.result[t],
                            <<"line 422", t, calls_left[t]>>))
    /\ call_pc' = [call_pc EXCEPT ![t] = "responded"]
    /\ UNCHANGED <<merge_vars, providers, _cache_expires_at, clock, force_refresh,
                   now, future_map, fetch_calls, provider_rows, provider_errors,
                   calls_left,
                   requests>>

\* the caller's writes into the dict it was given: snapshot["count"] = -1
EditedTop(snapshot) == [snapshot EXCEPT !.count = -1]

\* the caller's writes into the rows it was given: row["venue"] = "edited"
EditedRows(snapshot) ==
    [snapshot EXCEPT !.matches =
        [i \in DOMAIN @ |-> [@[i] EXCEPT !.venue = "edited"]]]

\* what a reference into graph, whose rows are in row_graph, reads after the
\* caller wrote into the graphs top and rows
AfterEdit(snapshots, graph, row_graph, top, rows) ==
    {With(IF Shared(graph, top) THEN EditedTop(snapshot) ELSE snapshot,
          LAMBDA edited :
            IF Shared(graph, rows) \/ Shared(row_graph, rows)
            THEN EditedRows(edited)
            ELSE edited) : snapshot \in snapshots}

\* line 314: the caller owns the dict returned and writes into it and into
\* its rows
MutateResponse(t) ==
    /\ call_pc[t] = "responded"
    /\ UNCHANGED _lock
    /\ response' = [u \in Threads |->
                       AfterEdit(response[u], object_graph.response[u],
                                 object_graph.candidates[u],
                                 object_graph.response[t],
                                 object_graph.candidates[t])]
    /\ _cache_payload' = AfterEdit(_cache_payload, object_graph.cache, NoObject,
                                   object_graph.response[t],
                                   object_graph.candidates[t])
    /\ payload' = [u \in Threads |->
                      AfterEdit(payload[u], object_graph.payload[u], NoObject,
                                object_graph.response[t],
                                object_graph.candidates[t])]
    /\ result' = [u \in Threads |->
                     AfterEdit(result[u], object_graph.result[u], NoObject,
                               object_graph.response[t],
                               object_graph.candidates[t])]
    /\ call_pc' = [call_pc EXCEPT ![t] = "mutated"]
    /\ UNCHANGED <<merge_vars, providers, _cache_expires_at, clock, force_refresh,
                   now, future_map, fetch_calls, provider_rows, provider_errors,
                   calls_left,
                   requests, object_graph>>

\* time passes
Tick ==
    /\ clock < MaxClock
    /\ clock' = clock + 1
    /\ UNCHANGED <<merge_vars, providers, cache_vars, _lock, call_vars, reply_vars>>

NextService ==
    \/ \E t \in Threads, force \in BOOLEAN : Enter(t, force)
    \/ \E t \in Threads : CacheHit(t)
    \/ \E t \in Threads : CacheMiss(t)
    \/ \E t \in Threads, name \in DOMAIN providers : FetchCompleted(t, name)
    \/ \E t \in Threads : BuildPayload(t)
    \/ \E t \in Threads : Install(t)
    \/ \E t \in Threads, request \in requests : Respond(t, request)
    \/ \E t \in Threads : MutateResponse(t)
    \/ Tick

\* lines 282-286: get_scores(), every argument at its default
DefaultRequest == Request("live", "all", "", FALSE, FALSE)

\* one thread makes MaxCalls calls, one after the other, of a service over
\* four providers that can fail; merge_provider_matches runs inside the calls
InitService ==
    /\ Constructed(FlakyProviders, [t \in Threads |-> IF t = 1 THEN MaxCalls ELSE 0],
                   {DefaultRequest})
    /\ goal_rows = <<>> /\ espn_rows = <<>> /\ sofa_rows = <<>> /\ streamed_rows = <<>>
    /\ pc = "done"
    /\ merged = <<>>
    /\ goal_espn_links = <<>> /\ merged_sofa_links = <<>> /\ stream_links = <<>>

SpecService == InitService /\ [][NextService]_vars

\* providers whose fetch works, but for goal's, which can raise
SteadyProviders ==
    [name \in {"goal", "espn", "sofascore", "streamed"} |->
        IF name = "goal"
        THEN {Returns(StaticRows(name)), Raises("HTTP 503")}
        ELSE {Returns(StaticRows(name))}]

\* every thread makes one call, and the calls overlap in any way
InitOverlap ==
    /\ Constructed(SteadyProviders, [t \in Threads |-> 1], {DefaultRequest})
    /\ goal_rows = <<>> /\ espn_rows = <<>> /\ sofa_rows = <<>> /\ streamed_rows = <<>>
    /\ pc = "done"
    /\ merged = <<>>
    /\ goal_espn_links = <<>> /\ merged_sofa_links = <<>> /\ stream_links = <<>>

SpecOverlap == InitOverlap /\ [][NextService]_vars

\* providers whose fetch returns the static rows when it returns
StaticProviders ==
    [name \in {"goal", "espn", "sofascore", "streamed"} |->
        {Returns(StaticRows(name))}]

\* one thread makes MaxCalls calls and every other thread one, and the
\* calls overlap in any way; a fetch that is never completed hangs
InitHung ==
    /\ Constructed(StaticProviders,
                   [t \in Threads |-> IF t = 1 THEN MaxCalls ELSE 1],
                   {DefaultRequest})
    /\ goal_rows = <<>> /\ espn_rows = <<>> /\ sofa_rows = <<>> /\ streamed_rows = <<>>
    /\ pc = "done"
    /\ merged = <<>>
    /\ goal_espn_links = <<>> /\ merged_sofa_links = <<>> /\ stream_links = <<>>

SpecHung == InitHung /\ [][NextService]_vars

\* services over four providers each of which either always returns its
\* static rows or always raises: every mix, from none failing to all failing
MixedProviders ==
    [{"goal", "espn", "sofascore", "streamed"} ->
        {{Returns(<<>>)}, {Raises("HTTP 503")}}]

\* the providers of a mix; one that returns, returns its static rows
ProvidersOfMix(mix) ==
    [name \in DOMAIN mix |->
        IF mix[name] = {Returns(<<>>)} THEN {Returns(StaticRows(name))}
        ELSE mix[name]]

\* one thread makes MaxCalls calls of a service over any such mix
InitLive ==
    /\ \E mix \in MixedProviders :
          Constructed(ProvidersOfMix(mix),
                      [t \in Threads |-> IF t = 1 THEN MaxCalls ELSE 0],
                      {DefaultRequest})
    /\ goal_rows = <<>> /\ espn_rows = <<>> /\ sofa_rows = <<>> /\ streamed_rows = <<>>
    /\ pc = "done"
    /\ merged = <<>>
    /\ goal_espn_links = <<>> /\ merged_sofa_links = <<>> /\ stream_links = <<>>

\* the steps of a call of thread t between its entry and its snapshot that
\* take or wait for no merge: the two locked blocks and the completion of a
\* fetch the call has submitted
Proceed(t) ==
    \/ CacheHit(t)
    \/ CacheMiss(t)
    \/ \E name \in DOMAIN providers : FetchCompleted(t, name)
    \/ Install(t)

\* BuildPayload(t) can be taken: its two guards; what follows them in
\* BuildPayload assigns and cannot fail
BuildPayloadEnabled(t) ==
    /\ call_pc[t] = "fetching"
    /\ DOMAIN provider_rows[t] = future_map[t]

\* Respond(t, request) can be taken for some request
RespondEnabled(t) ==
    /\ call_pc[t] = "returned"
    /\ requests # {}

\* weak fairness of the steps of the call of thread t: a thread that can
\* run does run, the lock is free again after each block that takes it, and
\* every fetch a call has submitted returns or raises.  For BuildPayload and
\* Respond weak fairness is written out, with the guards for ENABLED
Fairness(t) ==
    /\ WF_vars(Proceed(t))
    /\ \/ []<>(~BuildPayloadEnabled(t))
       \/ []<><<BuildPayload(t)>>_vars
    /\ \/ []<>(~RespondEnabled(t))
       \/ []<><<\E request \in requests : Respond(t, request)>>_vars

SpecLive ==
    /\ InitLive
    /\ [][NextService]_vars
    /\ \A t \in Threads : Fairness(t)

\* providers for the calls that read one snapshot at different times: a live
\* goal row last updated at second 0 and a live sofascore row whose last
\* update is no time
RereadProviders ==
    [name \in {"goal", "espn", "sofascore", "streamed"} |->
        {Returns(
           CASE name = "goal" ->
                  RowsOf("goal", <<[fixture |-> <<"Alpha FC", "Beta FC", Kickoff>>,
                                    scores |-> Scores({2}, {1}), status |-> "live",
                                    updated |-> IsoTime(0, "Z"), competition |-> "Cup",
                                    url |-> FALSE]>>)
             [] name = "sofascore" ->
                  RowsOf("sofascore", <<[fixture |-> <<"Delta-SC", "FC", Kickoff>>,
                                         scores |-> Scores({1}, {1}), status |-> "live",
                                         updated |-> MalformedTime, competition |-> "",
                                         url |-> FALSE]>>)
             [] OTHER -> <<>>)}]

\* every thread makes one call, with the defaults or asking for every
\* status with the stale rows and the conflicts, and the calls overlap in
\* any way
InitReread ==
    /\ Constructed(RereadProviders, [t \in Threads |-> 1],
                   {DefaultRequest, Request("all", "all", "", TRUE, TRUE)})
    /\ goal_rows = <<>> /\ espn_rows = <<>> /\ sofa_rows = <<>> /\ streamed_rows = <<>>
    /\ pc = "done"
    /\ merged = <<>>
    /\ goal_espn_links = <<>> /\ merged_sofa_links = <<>> /\ stream_links = <<>>

SpecReread == InitReread /\ [][NextService]_vars

\* the rows the providers serve in the calls that are filtered and gated: a
\* goal row that espn confirms, contradicts or does not know, and one or two
\* sofascore rows of other fixtures; statuses and update times vary
ScoredRows(name) ==
    CASE name = "goal" ->
           {RowsOf("goal", <<[fixture |-> <<"Alpha FC", "Beta FC", Kickoff>>,
                              scores |-> Scores({2}, {1}), status |-> status,
                              updated |-> updated, competition |-> "Cup",
                              url |-> FALSE]>>) :
              status \in {"live", "finished"},
              updated \in {IsoTime(0, "Z"), NoTime}}
      [] name = "espn" ->
           {<<>>} \cup
           {RowsOf("espn", <<[fixture |-> <<"Alpha FC", "Beta", NoTime>>,
                              scores |-> scores, status |-> "live",
                              updated |-> NoTime, competition |-> "Cup",
                              url |-> FALSE]>>) :
              scores \in {Scores({2}, {1}), Scores({1}, {1})}}
      [] name = "sofascore" ->
           {RowsOf("sofascore",
                   SubSeq(<<[fixture |-> <<"Delta-SC", "FC", Kickoff>>,
                             scores |-> Scores({1}, {1}), status |-> status,
                             updated |-> updated, competition |-> "League",
                             url |-> FALSE],
                            [fixture |-> <<"FC", "Delta-SC", Kickoff>>,
                             scores |-> Scores({0}, {0}), status |-> other,
                             updated |-> IF other = "live" THEN IsoTime(1, "Z")
                                         ELSE IsoTime(0, "Z"),
                             competition |-> "", url |-> FALSE]>>, 1, n)) :
              status \in {"live", "finished"},
              updated \in {IsoTime(0, "Z"), MalformedTime},
              other \in {"live", "finished"},
              n \in 1..2}
      [] name = "streamed" -> {StaticRows("streamed")}

\* services over four providers that serve such rows and never raise
ScoredProviders ==
    {[name \in {"goal", "espn", "sofascore", "streamed"} |-> {Returns(rows[name])}] :
        rows \in [goal : ScoredRows("goal"), espn : ScoredRows("espn"),
                  sofascore : ScoredRows("sofascore"),
                  streamed : ScoredRows("streamed")]}

\* the argument lists of the calls: every combination of the two flags with
\* and without the status filter, and filters that need trimming, lower
\* case, a list of statuses or a substring
ScoredRequests ==
    {Request(status, "all", "", include_stale, include_conflicts) :
        status \in {"live", "all"},
        include_stale \in BOOLEAN, include_conflicts \in BOOLEAN}
    \cup {Request(status, source, league, TRUE, TRUE) :
             status \in {" LIVE , finished", ","},
             source \in {" ESPN ", "go"},
             league \in {" CUP ", "up"}}
    \cup {Request("all", "sofascore", " ", FALSE, FALSE),
          Request("*", "*", "League", TRUE, FALSE)}

\* one thread makes MaxCalls calls with any of these arguments
InitScores ==
    /\ \E configured \in ScoredProviders :
          Constructed(configured,
                      [t \in Threads |-> IF t = 1 THEN MaxCalls ELSE 0],
                      ScoredRequests)
    /\ goal_rows = <<>> /\ espn_rows = <<>> /\ sofa_rows = <<>> /\ streamed_rows = <<>>
    /\ pc = "done"
    /\ merged = <<>>
    /\ goal_espn_links = <<>> /\ merged_sofa_links = <<>> /\ stream_links = <<>>

SpecScores == InitScores /\ [][NextService]_vars

(***************************************************************************)
(* Properties of the merge                                                 *)
(***************************************************************************)
\* the canonical rows that record (provider, id) in external_ids
Claimants(provider, id) ==
    {i \in 1..Len(merged) :
        /\ provider \in DOMAIN merged[i].external_ids
        /\ merged[i].external_ids[provider] = id}

\* both pairs fully known, and different
Conflicting(left, right) == FullyKnown(left) /\ FullyKnown(right) /\ left # right

\* the links of a list that have canonical row i as their base
LinksAt(links, i) == {k \in 1..Len(links) : links[k].base_index = i}

\* the stage that is about to run links espn rows (sofascore rows, ...)
AfterEspn == pc \in {"sofascore", "streamed", "sort", "done"}
AfterSofa == pc \in {"streamed", "sort", "done"}

ConflictRule(links, rows, ceiling) ==
    /\ \A i \in 1..Len(merged) :
         IF \E k \in LinksAt(links, i) :
               Conflicting(_score_pair(merged[i]),
                           _score_pair(rows[links[k].candidate_index]))
         THEN /\ merged'[i].verification = "score_conflict"
              /\ merged'[i].confidence <= ceiling
              /\ Len(merged'[i].discrepancies) = Len(merged[i].discrepancies) + 1
              /\ SubSeq(merged'[i].discrepancies, 1, Len(merged[i].discrepancies))
                   = merged[i].discrepancies
              /\ \E k \in LinksAt(links, i) :
                   LET d == merged'[i].discrepancies[Len(merged'[i].discrepancies)]
                   IN  /\ d.left = _score_pair(merged[i])
                       /\ d.right = _score_pair(rows[links[k].candidate_index])
         ELSE /\ merged'[i].discrepancies = merged[i].discrepancies
              /\ merged'[i].verification = "score_conflict"
                   => merged[i].verification = "score_conflict"
    /\ \A i \in (Len(merged) + 1)..Len(merged') :
         /\ merged'[i].verification # "score_conflict"
         /\ merged'[i].discrepancies = <<>>

\* C2: stage 2 and stage 3 mark a linked canonical row score_conflict if and
\* only if the canonical pair and the source's pair are both fully known and
\* differ; then confidence is capped (0.56, 0.50) and exactly one discrepancy
\* naming both pairs is appended; a missing score gives neither
C2_ConflictIffBothKnownAndDiffer ==
    [][ /\ pc = "espn" => ConflictRule(goal_espn_links', espn_rows, Hundredths(56))
        /\ pc = "sofascore" => ConflictRule(merged_sofa_links', sofa_rows, Hundredths(50))
      ]_vars

\* C2 witness: stage 2 found goal 2-1 against espn 1-1
C2_Witness ==
    /\ pc = "sofascore"
    /\ \E i \in 1..Len(merged) :
         /\ merged[i].verification = "score_conflict"
         /\ Len(merged[i].discrepancies) = 1
         /\ merged[i].discrepancies[1].left = <<{2}, {1}>>
         /\ merged[i].discrepancies[1].right = <<{1}, {1}>>

\* every row of a source is claimed by exactly one canonical row
ClaimedOnce(provider, rows) ==
    \A k \in 1..Len(rows) :
        Cardinality(Claimants(provider, rows[k].provider_match_id)) = 1

\* C3: (the model's rows of one source have pairwise distinct ids) after
\* every stage no (provider, id) pair is recorded by two canonical rows, and
\* every goal, espn and sofascore row folded in so far is claimed exactly once
C3_ClaimsAreUnique ==
    /\ \A i, j \in 1..Len(merged) :
         i # j =>
           \A p \in DOMAIN merged[i].external_ids \cap DOMAIN merged[j].external_ids :
              merged[i].external_ids[p] # merged[j].external_ids[p]
    /\ pc # "seed" => ClaimedOnce("goal", goal_rows)
    /\ AfterEspn => ClaimedOnce("espn", espn_rows)
    /\ AfterSofa => ClaimedOnce("sofascore", sofa_rows)

\* C3 witness: two goal rows competed for one espn row, one of them won it
C3_Witness ==
    /\ pc = "done"
    /\ Len(goal_rows) = 2 /\ Len(espn_rows) = 1 /\ Len(goal_espn_links) = 1
    /\ goal_rows[1].home_team = goal_rows[2].home_team

\* what one linking stage does to the canonical scores: a fully known pair
\* stays fully known, and a pair changes only to the fully known pair of the
\* source row linked to it in this stage
ScoreWriteRule(links, rows) ==
    \A i \in 1..Len(merged) :
       /\ FullyKnown(_score_pair(merged[i])) => FullyKnown(_score_pair(merged'[i]))
       /\ _score_pair(merged'[i]) # _score_pair(merged[i]) =>
            \E k \in LinksAt(links, i) :
               /\ _score_pair(merged'[i]) = _score_pair(rows[links[k].candidate_index])
               /\ FullyKnown(_score_pair(merged'[i]))

\* the same rows, in any order
SameRows(before, after) ==
    /\ Len(before) = Len(after)
    /\ \A i \in 1..Len(before) :
         Cardinality({j \in 1..Len(after) : after[j] = before[i]})
           = Cardinality({j \in 1..Len(before) : before[j] = before[i]})

\* C6: in every stage a canonical row that holds a fully known score pair
\* keeps a fully known pair, and a stage changes a canonical pair only by
\* adopting the fully known pair of the row it links; the sort changes no row
C6_KnownScoreNeverLost ==
    [][ /\ pc = "espn" => ScoreWriteRule(goal_espn_links', espn_rows)
        /\ pc = "sofascore" => ScoreWriteRule(merged_sofa_links', sofa_rows)
        /\ pc = "streamed" => ScoreWriteRule(stream_links', streamed_rows)
        /\ pc = "sort" => SameRows(merged, merged')
      ]_vars

\* C6 witness: a canonical row with a known pair was linked to a sofascore
\* row without scores (and kept its pair)
C6_Witness ==
    /\ pc = "streamed"
    /\ \E k \in 1..Len(merged_sofa_links) :
         /\ ~FullyKnown(_score_pair(sofa_rows[merged_sofa_links[k].candidate_index]))
         /\ FullyKnown(_score_pair(merged[merged_sofa_links[k].base_index]))

\* what one linking stage does to confidence: it rises only for a row linked
\* in this stage whose pair does not conflict with the linked row's, and a
\* conflict leaves it at or below the ceiling
ConfidenceRule(links, rows, ceiling) ==
    \A i \in 1..Len(merged) :
       LET conflict == \E k \in LinksAt(links, i) :
                          Conflicting(_score_pair(merged[i]),
                                      _score_pair(rows[links[k].candidate_index]))
       IN  /\ merged'[i].confidence > merged[i].confidence =>
                (LinksAt(links, i) # {} /\ ~conflict)
           /\ conflict => merged'[i].confidence <= ceiling

\* C7: confidence is always in [0,1]; a stage raises a row's confidence only
\* when it links a row whose evidence agrees (no conflicting pair); a
\* conflict found by stage 2 leaves confidence <= 0.56, by stage 3 <= 0.50
C7_ConfidenceBounds ==
    [][ /\ \A i \in 1..Len(merged') :
             merged'[i].confidence >= 0 /\ merged'[i].confidence <= Unit
        /\ pc = "espn" => ConfidenceRule(goal_espn_links', espn_rows, Hundredths(56))
        /\ pc = "sofascore" => ConfidenceRule(merged_sofa_links', sofa_rows, Hundredths(50))
        /\ pc = "streamed" => ConfidenceRule(stream_links', streamed_rows, 0)
      ]_vars

\* C7 witness: stage 3 found a conflict and capped an earlier 0.98
C7_Witness ==
    /\ pc = "streamed"
    /\ \E k \in 1..Len(merged_sofa_links) :
         /\ merged[merged_sofa_links[k].base_index].verification = "score_conflict"
         /\ merged[merged_sofa_links[k].base_index].confidence = Hundredths(50)
         /\ InSources("espn", merged[merged_sofa_links[k].base_index])

\* what a linking stage does when the canonical pair has a missing score and
\* the linked row's pair is fully known
FillRule(links, rows, verification, floor) ==
    \A k \in 1..Len(links) :
       LET i == links[k].base_index
           source == rows[links[k].candidate_index]
       IN  (~FullyKnown(_score_pair(merged[i])) /\ FullyKnown(_score_pair(source))) =>
              /\ merged'[i].home_score = source.home_score
              /\ merged'[i].away_score = source.away_score
              /\ merged'[i].verification = verification
              /\ merged'[i].confidence >= floor

\* C8: in stage 2 (stage 3) a linked canonical row with a missing score
\* adopts a fully known source pair, becomes filled_from_espn
\* (filled_from_sofascore) and has confidence >= 0.83 (0.86)
C8_FillFromSource ==
    [][ /\ pc = "espn" =>
              FillRule(goal_espn_links', espn_rows, "filled_from_espn", Hundredths(83))
        /\ pc = "sofascore" =>
              FillRule(merged_sofa_links', sofa_rows, "filled_from_sofascore",
                       Hundredths(86))
      ]_vars

\* C8 witness: goal's 2-? was replaced by espn's 1-1
C8_Witness ==
    /\ pc = "sofascore"
    /\ \E k \in 1..Len(goal_espn_links) :
         /\ _score_pair(goal_rows[goal_espn_links[k].base_index]) = <<{2}, {}>>
         /\ _score_pair(merged[goal_espn_links[k].base_index]) = <<{1}, {1}>>
         /\ merged[goal_espn_links[k].base_index].verification = "filled_from_espn"

\* the rows of the four sources, by provider id
RowsOfProvider(provider) ==
    CASE provider = "goal" -> goal_rows
      [] provider = "espn" -> espn_rows
      [] provider = "sofascore" -> sofa_rows
      [] provider = "streamed" -> streamed_rows

\* the rows behind a canonical row: for each of the given providers that is
\* in its sources, the row whose id it records, in the providers' order
RECURSIVE ContributingRows(_, _)
ContributingRows(row, names) ==
    IF names = <<>> THEN <<>>
    ELSE (IF InSources(Head(names), row)
          THEN LET rows == RowsOfProvider(Head(names))
               IN  <<rows[CHOOSE k \in 1..Len(rows) :
                           rows[k].provider_match_id
                             = row.external_ids[Head(names)]]>>
          ELSE <<>>) \o ContributingRows(row, Tail(names))

\* the first of the rows' statuses that has the highest priority
HighestPriorityStatus(rows) ==
    LET best == CHOOSE k \in 1..Len(rows) :
                  /\ \A j \in 1..Len(rows) :
                       STATUS_PRIORITY(rows[j].status) <= STATUS_PRIORITY(rows[k].status)
                  /\ \A j \in 1..(k - 1) :
                       STATUS_PRIORITY(rows[j].status) < STATUS_PRIORITY(rows[k].status)
    IN  rows[best].status

\* C4 as stated: the final status is the first highest-priority status among
\* the rows of all sources in sources, the streamed source included
C4_StatusOverAllSources ==
    pc = "done" =>
      \A i \in 1..Len(merged) :
         merged[i].status = HighestPriorityStatus(
             ContributingRows(merged[i], <<"goal", "espn", "sofascore", "streamed">>))

\* C4 (amended): at the end of the merge every canonical row's status is the
\* highest-priority status among the goal, espn and sofascore rows in its
\* sources, the earlier value kept on a tie; a linked streamed row's status
\* is not taken into account
C4_StatusOverScoreSources ==
    pc = "done" =>
      \A i \in 1..Len(merged) :
         merged[i].status = HighestPriorityStatus(
             ContributingRows(merged[i], <<"goal", "espn", "sofascore">>))

\* C4 witness: a canonical row made of a goal and an espn row ends finished
\* although the streamed row linked to it says live
C4_Witness ==
    /\ pc = "done"
    /\ \E i \in 1..Len(merged) :
         /\ InSources("goal", merged[i]) /\ InSources("espn", merged[i])
         /\ InSources("streamed", merged[i])
         /\ merged[i].status = "finished"
         /\ \E k \in 1..Len(streamed_rows) :
              /\ streamed_rows[k].provider_match_id = merged[i].external_ids["streamed"]
              /\ streamed_rows[k].status = "live"

\* the instants of the rows' parseable last_updated_utc values
ValidUpdates(rows) ==
    UNION {parse_iso_utc(rows[k].last_updated_utc) : k \in 1..Len(rows)}

\* C5: at the end of the merge every canonical row's last_updated_utc is the
\* most recent parseable last_updated_utc among the rows of all sources in
\* its sources, a linked streamed row included
C5_LastUpdatedOverAllSources ==
    pc = "done" =>
      \A i \in 1..Len(merged) :
         LET updates == ValidUpdates(
               ContributingRows(merged[i], <<"goal", "espn", "sofascore", "streamed">>))
         IN  updates # {} =>
               /\ parse_iso_utc(merged[i].last_updated_utc) # {}
               /\ \A t \in updates : t <= The(parse_iso_utc(merged[i].last_updated_utc))
\* the same over the goal, espn and sofascore rows only: what stages 2 and 3
\* maintain
LastUpdatedOverScoreSources ==
    pc = "done" =>
      \A i \in 1..Len(merged) :
         LET updates == ValidUpdates(
               ContributingRows(merged[i], <<"goal", "espn", "sofascore">>))
         IN  updates # {} =>
               /\ parse_iso_utc(merged[i].last_updated_utc) # {}
               /\ \A t \in updates : t <= The(parse_iso_utc(merged[i].last_updated_utc))

(***************************************************************************)
(* Properties of the service                                               *)
(***************************************************************************)
\* the matches of a snapshot that record (provider, id) in external_ids
SnapshotClaimants(snapshot, provider, id) ==
    {i \in 1..Len(snapshot.matches) :
        /\ provider \in DOMAIN snapshot.matches[i].external_ids
        /\ snapshot.matches[i].external_ids[provider] = id}

\* what a finished refresh of thread t shows of the sources that raised and
\* of those that did not; an error text of "" passes only if allowed
FailureIsolation(empty_text_allowed) ==
    \A t \in Threads :
       (call_pc[t] = "returned" /\ future_map[t] # {}) =>
          /\ result[t] # {}
          /\ \A name \in future_map[t] :
               LET status == The(result[t]).providers[name]
               IN  IF name \in DOMAIN provider_errors[t]
                   THEN /\ provider_rows[t][name] = <<>>
                        /\ status.ok = FALSE
                        /\ status.count = 0
                        /\ status.error # {}
                        /\ empty_text_allowed \/ status.error # {""}
                   ELSE /\ status.ok = TRUE
                        /\ status.error = {}
                        /\ name \in {"goal", "espn", "sofascore"} =>
                             \A k \in 1..Len(provider_rows[t][name]) :
                                Cardinality(SnapshotClaimants(
                                    The(result[t]), name,
                                    provider_rows[t][name][k].provider_match_id)) = 1

\* C9: whatever sources raise during a refresh, the refresh returns a
\* snapshot; a source that raised has no rows and reports ok = false with a
\* non-empty error text; a source that did not reports ok = true, and its
\* rows are in the snapshot's matches (for the streamed source: were merged)
C9_FailureIsolation == FailureIsolation(FALSE)

\* the same, but for the error text, which is str(exc) whatever it is
FailureIsolationWithAnyText == FailureIsolation(TRUE)

\* C10: a non-forced read that finds a cached snapshot at a time strictly
\* before the deadline returns the cached snapshot, submits no fetch, and
\* leaves the cached snapshot and the deadline as they are
C10_CacheHit ==
    [][ \A t \in Threads :
          ( /\ call_pc[t] = "lock" /\ call_pc'[t] # "lock"
            /\ ~force_refresh[t]
            /\ _cache_payload # {}
            /\ now[t] < _cache_expires_at ) =>
              /\ call_pc'[t] = "returned"
              /\ result'[t] = _cache_payload
              /\ future_map'[t] = {} /\ provider_rows'[t] = EmptyDict
              /\ _cache_payload' = _cache_payload
              /\ _cache_expires_at' = _cache_expires_at
      ]_vars

\* C10 witness: the second call of a thread was served from the cache that
\* its first call had filled
C10_Witness ==
    \E t \in Threads :
       /\ call_pc[t] = "returned" /\ calls_left[t] = 0
       /\ ~force_refresh[t]
       /\ future_map[t] = {}
       /\ result[t] # {} /\ result[t] = _cache_payload
       /\ now[t] < _cache_expires_at

\* C11: a read that is forced, or finds no cached snapshot, or comes at or
\* after the deadline, submits the fetch of every configured provider and
\* merges what all of them gave; the cache changes only in the one step that
\* installs such a call's snapshot together with the deadline clock +
\* cache_seconds and returns that snapshot; the deadline never decreases
C11_RefreshPath ==
    [][ /\ \A t \in Threads :
             ( /\ call_pc[t] = "lock" /\ call_pc'[t] # "lock"
               /\ (force_refresh[t] \/ _cache_payload = {}
                     \/ now[t] >= _cache_expires_at) ) =>
                 /\ call_pc'[t] = "fetching"
                 /\ future_map'[t] = DOMAIN providers
                 /\ provider_rows'[t] = EmptyDict
        /\ \A t \in Threads :
             (call_pc[t] = "fetching" /\ call_pc'[t] # "fetching") =>
                 /\ DOMAIN provider_rows[t] = DOMAIN providers
                 /\ call_pc'[t] = "install"
                 /\ payload'[t] # {}
                 /\ The(payload'[t]).matches =
                      merge_provider_matches(provider_rows[t]["goal"],
                                             provider_rows[t]["espn"],
                                             provider_rows[t]["streamed"],
                                             provider_rows[t]["sofascore"])
        /\ (_cache_payload' # _cache_payload \/ _cache_expires_at' # _cache_expires_at
              \/ \E t \in Threads : call_pc[t] = "install" /\ call_pc'[t] # "install") =>
             \E t \in Threads :
                /\ call_pc[t] = "install" /\ call_pc'[t] = "returned"
                /\ payload[t] # {}
                /\ _cache_payload' = payload[t]
                /\ _cache_expires_at' = clock + cache_seconds
                /\ result'[t] = payload[t]
        /\ _cache_expires_at' >= _cache_expires_at
      ]_vars

\* C11 witness: two overlapping refreshes, one of them forced, have both
\* installed; the cache holds the later one's snapshot and deadline
C11_Witness ==
    /\ \A t \in Threads : call_pc[t] = "returned" /\ future_map[t] = DOMAIN providers
    /\ \E t \in Threads : force_refresh[t]
    /\ \E t \in Threads : result[t] = _cache_payload
    /\ \E t \in Threads : result[t] # _cache_payload
    /\ _cache_expires_at = clock + cache_seconds
    /\ clock > 0

\* a snapshot as _refresh_if_needed built it: no row carries the gate's
\* annotations or a caller's edit, and count is the number of rows
Pristine(snapshot) ==
    /\ snapshot.count = Len(snapshot.matches)
    /\ "filters" \notin DOMAIN snapshot
    /\ \A i \in 1..Len(snapshot.matches) :
          /\ "is_stale" \notin DOMAIN snapshot.matches[i]
          /\ snapshot.matches[i].venue # "edited"

\* the references thread t holds to what its call returned
Returned(t) ==
    {object_graph.result[t], object_graph.response[t], object_graph.candidates[t]}
        \ {NoObject}

\* C12: what a read returns (on a cache hit, after a refresh, and from
\* get_scores with the gate's annotated rows) shares no object with the
\* cached snapshot; the gate's annotations and the caller's writes into what
\* it was given leave the cached snapshot as the refresh built it
C12_SnapshotIndependence ==
    /\ [](/\ \A t \in Threads : object_graph.cache \notin Returned(t)
          /\ \A snapshot \in _cache_payload : Pristine(snapshot))
    /\ [][\A t \in Threads :
             (call_pc[t] \in {"returned", "responded"} /\ call_pc'[t] # call_pc[t])
                => _cache_payload' = _cache_payload]_vars

\* a caller has written into the dict of its call while another call, served
\* from the cache, holds gated rows
C12_Witness ==
    \E t \in Threads, u \in Threads :
        /\ call_pc[t] = "mutated"
        /\ \E snapshot \in response[t] :
              snapshot.count = -1 /\ snapshot.matches # <<>>
        /\ call_pc[u] = "responded"
        /\ object_graph.result[u][1] = "line 324"
        /\ \E snapshot \in response[u] :
              /\ snapshot.matches # <<>>
              /\ snapshot.matches[1].is_stale = FALSE
        /\ _cache_payload = result[u]

\* the dicts get_scores has returned and the callers have not written into
Responses ==
    UNION {response[t] : t \in {u \in Threads : call_pc[u] = "responded"}}

\* the age of a row in a snapshot, from their two timestamps: {} when the
\* row's last update is missing or does not parse
AgeIn(snapshot, row) ==
    IF parse_iso_utc(row.last_updated_utc) = {} THEN {}
    ELSE {Max(0, The(parse_iso_utc(snapshot.generated_at_utc))
                   - The(parse_iso_utc(row.last_updated_utc)))}

\* C13: the gate marks a row stale exactly when its status is live and its
\* age is absent or greater than max_live_stale_seconds; the reason of a
\* stale row is missing_last_update when the age is absent and
\* older_than_<threshold>_seconds otherwise; a row that is not live is
\* never stale
C13_Staleness ==
    \A snapshot \in Responses :
        \A i \in 1..Len(snapshot.matches) :
            LET row == snapshot.matches[i]
                age == AgeIn(snapshot, row)
            IN  /\ row.last_update_age_seconds = age
                /\ row.is_stale <=>
                      /\ row.status = "live"
                      /\ age = {} \/ \E seconds \in age : seconds > max_live_stale_seconds
                /\ row.is_stale =>
                      row.staleness_reason =
                          IF age = {} THEN <<"missing_last_update">>
                          ELSE <<"older_than_", max_live_stale_seconds, "_seconds">>
                /\ row.status # "live" => ~row.is_stale

\* one answer holds a live row without a last update, a live row older than
\* the threshold, and a row that is not live and older than the threshold
C13_Witness ==
    \E snapshot \in Responses :
        \E i, j, k \in 1..Len(snapshot.matches) :
            /\ snapshot.matches[i].is_stale
            /\ snapshot.matches[i].last_update_age_seconds = {}
            /\ snapshot.matches[j].is_stale
            /\ snapshot.matches[j].last_update_age_seconds = {2}
            /\ snapshot.matches[k].status = "finished"
            /\ snapshot.matches[k].last_update_age_seconds = {2}

\* the calls whose answer is there: thread, the snapshot the read returned,
\* and the dict get_scores returned
Answered ==
    {<<t, The(result[t]), The(response[t])>> :
        t \in {u \in Threads : call_pc[u] = "responded"}}

\* a row as it was before the gate annotated its copy
Unannotated(row) ==
    [field \in DOMAIN row \ {"last_update_age_seconds", "is_stale", "staleness_reason"}
        |-> row[field]]

\* the row is stale in the snapshot: live, and its age absent or over the
\* threshold
StaleIn(snapshot, row) ==
    /\ row.status = "live"
    /\ \/ AgeIn(snapshot, row) = {}
       \/ \E seconds \in AgeIn(snapshot, row) : seconds > max_live_stale_seconds

\* the rows of the snapshot that the filters of the answer let through: the
\* gate's input
GateInput(snapshot, answer) ==
    _filter_matches(snapshot.matches, answer.filters.status,
                    answer.filters.source, answer.filters.league)

Count(rows, chosen) == Cardinality({i \in 1..Len(rows) : rows[i] \in chosen})

\* the rows of a list that are score conflicts
ConflictsOf(rows) ==
    {rows[i] : i \in {j \in 1..Len(rows) : rows[j].verification = "score_conflict"}}

\* the rows of a list that are stale in the snapshot
StaleOf(snapshot, rows) ==
    {rows[i] : i \in {j \in 1..Len(rows) : StaleIn(snapshot, rows[j])}}

\* C15, as the claim states it: with both include flags off,
\* dropped_conflict_count is the number of input rows that are score
\* conflicts and dropped_stale_count the number of stale input rows, a row
\* that is both being counted in both
C15_CountedOncePerReason ==
    \A call \in Answered :
        (~call[3].quality.include_stale /\ ~call[3].quality.include_conflicts)
          => /\ call[3].quality.dropped_conflict_count
                  = Count(GateInput(call[2], call[3]),
                          ConflictsOf(GateInput(call[2], call[3])))
             /\ call[3].quality.dropped_stale_count
                  = Count(GateInput(call[2], call[3]),
                          StaleOf(call[2], GateInput(call[2], call[3])))

\* what the counters are: every dropped row is counted once, for the first
\* reason that applies: dropped_conflict_count is the number of input rows dropped
\* as score conflicts, dropped_stale_count the number of stale input rows
\* among the others, so a row that is both a conflict and stale is counted
\* as a conflict only when both flags are off
CountedOnceForFirstReason ==
    \A call \in Answered :
        LET input == GateInput(call[2], call[3])
            conflicts == IF call[3].quality.include_conflicts THEN {}
                         ELSE ConflictsOf(input)
            stale == IF call[3].quality.include_stale THEN {}
                     ELSE StaleOf(call[2], input) \ conflicts
        IN  /\ call[3].quality.dropped_conflict_count = Count(input, conflicts)
            /\ call[3].quality.dropped_stale_count = Count(input, stale)

\* with both flags off, the gate's input holds a row that is a score
\* conflict and stale, and a row that is stale only
ConflictAndStaleDropped ==
    \E call \in Answered :
        /\ ~call[3].quality.include_stale /\ ~call[3].quality.include_conflicts
        /\ \E row \in ConflictsOf(GateInput(call[2], call[3])) :
              StaleIn(call[2], row)
        /\ call[3].quality.dropped_conflict_count = 1
        /\ call[3].quality.dropped_stale_count = 1

\* a filter text as it is read: trimmed and in lower case
Trimmed(text) == Lower(Strip(TextChars(text)))

\* the text asks for no restriction: nothing, all or *
Unrestricted(text) == Trimmed(text) \in {<<>>, <<"a","l","l">>, <<"*">>}

\* the status names of a comma-separated list
StatusSet(text) ==
    With(SplitOn(Trimmed(text), ",", <<>>),
         LAMBDA pieces : {Lower(Strip(pieces[i])) : i \in 1..Len(pieces)} \ {<<>>})

\* C16: the matches get_scores returns are exactly the rows of the snapshot
\* whose status is in the requested comma-separated set (all or * asks for
\* every status), whose sources hold the requested provider id (all or * asks
\* for every source), whose competition contains the league text, whatever
\* the case, when one is given, and that pass the gate; they are in the
\* snapshot's order and count is their number
C16_Filtering ==
    \A call \in Answered :
        LET snapshot == call[2]
            answer == call[3]
            Wanted(row) ==
                /\ Unrestricted(answer.filters.status)
                      \/ TextChars(row.status) \in StatusSet(answer.filters.status)
                /\ Unrestricted(answer.filters.source)
                      \/ \E i \in 1..Len(row.sources) :
                            TextChars(row.sources[i]) = Trimmed(answer.filters.source)
                /\ Trimmed(answer.filters.league) = <<>>
                      \/ Contains(Trimmed(answer.filters.league),
                                  Lower(TextChars(row.competition)))
                /\ row.verification # "score_conflict"
                      \/ answer.quality.include_conflicts
                /\ ~StaleIn(snapshot, row) \/ answer.quality.include_stale
        IN  /\ [i \in 1..Len(answer.matches) |-> Unannotated(answer.matches[i])]
                  = SelectSeq(snapshot.matches, Wanted)
            /\ answer.count = Len(answer.matches)

\* a call with a list of statuses, a source and a league, all to be trimmed
\* and lower-cased, returns one row of a snapshot of three
C16_Witness ==
    \E call \in Answered :
        /\ call[3].filters = [status |-> " LIVE , finished", source |-> " ESPN ",
                              league |-> " CUP "]
        /\ Len(call[2].matches) = 3
        /\ call[3].count = 1
        /\ call[3].matches[1].sources = <<"goal", "espn", "streamed">>

\* C17: the streamed stage leaves every canonical row's home_score,
\* away_score, status, confidence and verification as they were, linked or
\* not, and creates and drops no row; all it changes in a row is
\* streamed_watch_url, sources, by appending, and external_ids, by adding
\* an entry
C17_StreamedStageFrame ==
    [][pc = "streamed" =>
         /\ Len(merged') = Len(merged)
         /\ \A i \in 1..Len(merged) :
              /\ DOMAIN merged'[i] = DOMAIN merged[i]
              /\ \A field \in DOMAIN merged[i] \ {"streamed_watch_url", "sources",
                                                   "external_ids"} :
                    merged'[i][field] = merged[i][field]
              /\ merged'[i].sources \in {merged[i].sources,
                                         Append(merged[i].sources, "streamed")}
              /\ \A name \in DOMAIN merged[i].external_ids :
                    /\ name \in DOMAIN merged'[i].external_ids
                    /\ merged'[i].external_ids[name] = merged[i].external_ids[name]
              /\ DOMAIN merged'[i].external_ids
                    \subseteq DOMAIN merged[i].external_ids \cup {"streamed"}]_vars

\* the streamed stage has linked a live streamed row, updated later, to a
\* finished canonical row, and has left another canonical row unlinked
C17_Witness ==
    /\ pc = "sort"
    /\ \E k \in 1..Len(stream_links) :
         /\ merged[stream_links[k].base_index].status = "finished"
         /\ InSources("streamed", merged[stream_links[k].base_index])
         /\ streamed_rows[stream_links[k].candidate_index].status = "live"
    /\ \E i \in 1..Len(merged) : ~InSources("streamed", merged[i])

\* C18, as the claim states it: once the streamed stage has run, the
\* canonical row of every accepted streamed link has streamed in sources,
\* the streamed row's id in external_ids and its watch URL as
\* streamed_watch_url
C18_EveryStreamedLinkAttaches ==
    pc = "sort" =>
      \A k \in 1..Len(stream_links) :
          LET row == merged[stream_links[k].base_index]
              streamed_row == streamed_rows[stream_links[k].candidate_index]
          IN  /\ InSources("streamed", row)
              /\ "streamed" \in DOMAIN row.external_ids
              /\ row.external_ids["streamed"] = streamed_row.provider_match_id
              /\ row.streamed_watch_url = streamed_row.streamed_watch_url

\* C18, amended: for every accepted streamed link whose streamed row has a
\* watch URL, the canonical row afterwards has streamed in sources, the
\* row's id in external_ids and its watch URL as streamed_watch_url; a link
\* whose streamed row has no watch URL leaves the canonical row as it was
C18_StreamedLinkWithUrlAttaches ==
    [][pc = "streamed" =>
         \A k \in 1..Len(stream_links') :
             LET before == merged[stream_links'[k].base_index]
                 after == merged'[stream_links'[k].base_index]
                 streamed_row == streamed_rows[stream_links'[k].candidate_index]
             IN  IF streamed_row.streamed_watch_url # <<>>
                 THEN /\ InSources("streamed", after)
                      /\ "streamed" \in DOMAIN after.external_ids
                      /\ after.external_ids["streamed"] = streamed_row.provider_match_id
                      /\ after.streamed_watch_url = streamed_row.streamed_watch_url
                 ELSE after = before]_vars

\* the streamed stage has accepted the link of a streamed row with a watch
\* URL to a canonical row of two sources
C18_Witness ==
    /\ pc = "sort"
    /\ \E k \in 1..Len(stream_links) :
         /\ streamed_rows[stream_links[k].candidate_index].streamed_watch_url # <<>>
         /\ Len(merged[stream_links[k].base_index].sources) = 3
         /\ merged[stream_links[k].base_index].streamed_watch_url # <<>>

\* the rows of a source that no link of the list claims
Unclaimed(rows, links) ==
    {k \in 1..Len(rows) : \A n \in 1..Len(links) : links[n].candidate_index # k}

\* a stage has appended to the list before, for every row of its source that
\* no link claims, one single_source row made of it, and nothing else
UnclaimedBecomeRows(before, after, rows, links, source) ==
    /\ Len(after) = Len(before) + Cardinality(Unclaimed(rows, links))
    /\ \A k \in Unclaimed(rows, links) :
          Cardinality({i \in (Len(before) + 1)..Len(after) :
                          /\ after[i].sources = <<source>>
                          /\ after[i].verification = "single_source"
                          /\ after[i].external_ids = (source :> rows[k].provider_match_id)
                          /\ after[i].home_team = rows[k].home_team
                          /\ after[i].away_team = rows[k].away_team
                          /\ _score_pair(after[i]) = _score_pair(rows[k])}) = 1

\* C19: every espn and every sofascore row that no link claims becomes a
\* single_source canonical row of its own with that source alone in sources,
\* streamed rows create nothing, and the list returned has as many rows as
\* goal, espn and sofascore rows came in, less the links accepted for espn
\* and for sofascore rows, whatever the streamed rows
C19_RowAccounting ==
    /\ [](pc = "done" =>
            Len(merged) = Len(goal_rows) + Len(espn_rows) + Len(sofa_rows)
                            - Len(goal_espn_links) - Len(merged_sofa_links))
    /\ [][(pc = "espn" =>
             UnclaimedBecomeRows(merged, merged', espn_rows, goal_espn_links', "espn"))
          /\ (pc = "sofascore" =>
                UnclaimedBecomeRows(merged, merged', sofa_rows, merged_sofa_links',
                                    "sofascore"))
          /\ (pc \in {"streamed", "sort"} => Len(merged') = Len(merged))]_vars

\* the list returned has one row for a goal row and its espn row and one for
\* a sofascore row that nothing claimed, and a streamed row was left out
C19_Witness ==
    /\ pc = "done"
    /\ Len(goal_espn_links) = 1
    /\ Unclaimed(sofa_rows, merged_sofa_links) # {}
    /\ Len(merged) = 2
    /\ \E i \in 1..Len(merged) : merged[i].sources = <<"sofascore">>

\* the start instant of a row, -1 for a row without one
StartInstant(row) ==
    IF parse_iso_utc(row.start_time_utc) = {} THEN -1
    ELSE The(parse_iso_utc(row.start_time_utc))

\* a or b comes first, or either may, by status priority descending, then
\* start instant ascending with no instant first, then label ascending
InTimeOrder(a, b) ==
    \/ STATUS_PRIORITY(StatusOrUnknown(a.status))
          > STATUS_PRIORITY(StatusOrUnknown(b.status))
    \/ /\ STATUS_PRIORITY(StatusOrUnknown(a.status))
            = STATUS_PRIORITY(StatusOrUnknown(b.status))
       /\ \/ StartInstant(a) < StartInstant(b)
          \/ /\ StartInstant(a) = StartInstant(b)
             /\ ~LexLess(MatchName(b), MatchName(a))

\* the same, by the text of the start time, character by character, the
\* text of a missing start time being empty
InTextOrder(a, b) ==
    \/ STATUS_PRIORITY(StatusOrUnknown(a.status))
          > STATUS_PRIORITY(StatusOrUnknown(b.status))
    \/ /\ STATUS_PRIORITY(StatusOrUnknown(a.status))
            = STATUS_PRIORITY(StatusOrUnknown(b.status))
       /\ \/ LexLess(StartText(a.start_time_utc), StartText(b.start_time_utc))
          \/ /\ StartText(a.start_time_utc) = StartText(b.start_time_utc)
             /\ ~LexLess(MatchName(b), MatchName(a))

\* where a row is in a list
PositionIn(rows, row) == CHOOSE i \in 1..Len(rows) : rows[i] = row

\* the sort keeps the rows, and rows with one key in their order
StableStep(TheSame(_, _)) ==
    pc = "sort" =>
      /\ SameRows(merged, merged')
      /\ \A i \in 1..Len(merged), j \in 1..Len(merged) :
            (i < j /\ TheSame(merged[i], merged[j]))
              => PositionIn(merged', merged[i]) < PositionIn(merged', merged[j])

\* C20, as the claim states it: the list returned is ordered by status
\* priority descending, then start time ascending with the rows without a
\* start time first, then by the lower-cased "home vs away" label ascending,
\* and rows equal on the three keys keep their order
C20_SortedByStartTime ==
    /\ [](pc = "done" =>
            \A i \in 1..Len(merged), j \in 1..Len(merged) :
                i < j => InTimeOrder(merged[i], merged[j]))
    /\ [][StableStep(LAMBDA a, b : InTimeOrder(a, b) /\ InTimeOrder(b, a))]_vars

\* C20, amended: the list returned is ordered by status priority descending,
\* then by the text of the start time ascending, character by character,
\* with the rows without a start time first, then by the lower-cased
\* "home vs away" label ascending, and rows equal on the three keys keep
\* their order
C20_SortedByStartText ==
    /\ [](pc = "done" =>
            \A i \in 1..Len(merged), j \in 1..Len(merged) :
                i < j => InTextOrder(merged[i], merged[j]))
    /\ [][StableStep(LAMBDA a, b : InTextOrder(a, b) /\ InTextOrder(b, a))]_vars

\* the list returned starts with a live row without a start time and goes
\* on with two live rows with one key, in the order they had
C20_Witness ==
    /\ pc = "done"
    /\ Len(merged) = 3
    /\ merged[1].status = "live" /\ merged[1].start_time_utc = NoTime
    /\ merged[2].status = "live" /\ merged[2].start_time_utc # NoTime
    /\ InTextOrder(merged[3], merged[2])
    /\ merged[2].external_ids["sofascore"][2] < merged[3].external_ids["sofascore"][2]
    /\ merged[1].external_ids = ("goal" :> <<"goal", 1>>)

(***************************************************************************)
(* Properties of the record linker                                         *)
(***************************************************************************)
\* the average name similarity of a base row and a candidate, home with home
\* and away with away
DirectAverage(base, candidate) ==
    (similarity(base.home_team, candidate.home_team)
     + similarity(base.away_team, candidate.away_team)) \div 2

\* the same, home with away and away with home
SwappedAverage(base, candidate) ==
    (similarity(base.home_team, candidate.away_team)
     + similarity(base.away_team, candidate.home_team)) \div 2

\* the larger of the two averages
NameScore(base, candidate) ==
    Max(DirectAverage(base, candidate), SwappedAverage(base, candidate))

\* the minutes between the two start times, {} unless both are times
GapOf(base, candidate) ==
    minutes_between(base.start_time_utc, candidate.start_time_utc)

\* max(0, 1 - gap/maxGap) * 0.10, 0 without a gap
BonusOf(base, candidate, max_gap) ==
    IF GapOf(base, candidate) = {} THEN 0
    ELSE Max(0, Unit - (The(GapOf(base, candidate)) \div max_gap)) \div 10

\* name similarity plus time bonus
FinalScore(base, candidate, max_gap) ==
    NameScore(base, candidate) + BonusOf(base, candidate, max_gap)

\* both start times are times and they are more than max_gap minutes apart
BeyondGap(base, candidate, max_gap) ==
    /\ GapOf(base, candidate) # {}
    /\ The(GapOf(base, candidate)) > max_gap * Unit

\* links is one-to-one between base_rows and candidate_rows, and every link
\* carries the final score of its pair, which is at least min_similarity
LinkerContract(links, base_rows, candidate_rows, min_similarity) ==
    /\ \A i, j \in 1..Len(links) :
         i # j => /\ links[i].base_index # links[j].base_index
                  /\ links[i].candidate_index # links[j].candidate_index
    /\ \A k \in 1..Len(links) :
         /\ links[k].base_index \in 1..Len(base_rows)
         /\ links[k].candidate_index \in 1..Len(candidate_rows)
         /\ links[k].similarity
              = FinalScore(base_rows[links[k].base_index],
                           candidate_rows[links[k].candidate_index],
                           MAX_MINUTES_DIFF)
         /\ links[k].similarity >= min_similarity

\* C21: the links each linking stage gets from the record linker are
\* one-to-one (no base index and no candidate index in two links) and every
\* link's final score, name similarity plus time bonus, is at least the
\* minimum similarity the stage passed (0.76, 0.78, 0.80)
C21_LinkerOneToOneThresholded ==
    [][ /\ (pc = "espn" =>
              LinkerContract(goal_espn_links', merged, espn_rows, MIN_SIMILARITY_ESPN))
        /\ (pc = "sofascore" =>
              LinkerContract(merged_sofa_links', merged, sofa_rows, MIN_SIMILARITY_SOFA))
        /\ (pc = "streamed" =>
              LinkerContract(stream_links', merged, streamed_rows,
                             MIN_SIMILARITY_STREAMED))
      ]_vars

\* C21 witness: two goal rows both reach the threshold with the first espn
\* row, only one link was made, and the second espn row, within the gap of
\* both, stays unlinked because neither goal row reaches 0.76 with it
C21_Witness ==
    /\ pc = "sofascore"
    /\ Len(goal_rows) = 2 /\ Len(espn_rows) = 2 /\ Len(goal_espn_links) = 1
    /\ goal_espn_links[1].candidate_index = 1
    /\ \A b \in 1..2 :
         /\ FinalScore(goal_rows[b], espn_rows[1], MAX_MINUTES_DIFF) >= Hundredths(76)
         /\ ~BeyondGap(goal_rows[b], espn_rows[2], MAX_MINUTES_DIFF)
         /\ FinalScore(goal_rows[b], espn_rows[2], MAX_MINUTES_DIFF) < Hundredths(76)
         /\ FinalScore(goal_rows[b], espn_rows[2], MAX_MINUTES_DIFF) > 0

\* the candidates the links of the base rows before base_index hold
UsedBefore(links, base_index) ==
    {links[k].candidate_index :
        k \in {j \in 1..Len(links) : links[j].base_index < base_index}}

\* the candidates open to a base row: not held by an earlier base row and
\* not beyond the gap
Eligible(links, base_rows, candidate_rows, base_index) ==
    {c \in 1..Len(candidate_rows) :
        /\ c \notin UsedBefore(links, base_index)
        /\ ~BeyondGap(base_rows[base_index], candidate_rows[c], MAX_MINUTES_DIFF)}

\* of the candidates open to a base row, the one with the highest final
\* score and, among equals, the lowest index; {} when none is open
Preferred(links, base_rows, candidate_rows, base_index) ==
    {c \in Eligible(links, base_rows, candidate_rows, base_index) :
        \A d \in Eligible(links, base_rows, candidate_rows, base_index) :
            \/ FinalScore(base_rows[base_index], candidate_rows[c], MAX_MINUTES_DIFF)
                 > FinalScore(base_rows[base_index], candidate_rows[d], MAX_MINUTES_DIFF)
            \/ /\ FinalScore(base_rows[base_index], candidate_rows[c], MAX_MINUTES_DIFF)
                    = FinalScore(base_rows[base_index], candidate_rows[d], MAX_MINUTES_DIFF)
               /\ c <= d}

\* links come in the order of the base rows, and the candidates linked to a
\* base row are its preferred candidate if that one reaches min_similarity,
\* and none otherwise
GreedyContract(links, base_rows, candidate_rows, min_similarity) ==
    /\ \A i, j \in 1..Len(links) :
         i < j => links[i].base_index < links[j].base_index
    /\ \A b \in 1..Len(base_rows) :
         {links[k].candidate_index :
             k \in {j \in 1..Len(links) : links[j].base_index = b}}
           = {c \in Preferred(links, base_rows, candidate_rows, b) :
                FinalScore(base_rows[b], candidate_rows[c], MAX_MINUTES_DIFF)
                  >= min_similarity}

\* C27: the record linker takes the base rows in list order and links each
\* to the candidate with the highest final score among those no earlier
\* base row holds and the time gap does not exclude, the lowest index
\* winning on equal scores; a candidate an earlier base row holds is never
\* given to a later one, whatever the later one scores with it
C27_GreedyBestMatch ==
    [][ /\ (pc = "espn" =>
              GreedyContract(goal_espn_links', merged, espn_rows, MIN_SIMILARITY_ESPN))
        /\ (pc = "sofascore" =>
              GreedyContract(merged_sofa_links', merged, sofa_rows, MIN_SIMILARITY_SOFA))
        /\ (pc = "streamed" =>
              GreedyContract(stream_links', merged, streamed_rows,
                             MIN_SIMILARITY_STREAMED))
      ]_vars

\* C27 witness: the first goal row scores the same with both espn rows and
\* holds the first; the second goal row scores higher with the first espn
\* row than the first goal row did and higher than with the second espn
\* row, and is linked to the second
C27_Witness ==
    /\ pc = "sofascore"
    /\ Len(goal_rows) = 2 /\ Len(espn_rows) = 2 /\ Len(goal_espn_links) = 2
    /\ goal_espn_links[1].base_index = 1 /\ goal_espn_links[1].candidate_index = 1
    /\ goal_espn_links[2].base_index = 2 /\ goal_espn_links[2].candidate_index = 2
    /\ FinalScore(goal_rows[1], espn_rows[1], MAX_MINUTES_DIFF)
         = FinalScore(goal_rows[1], espn_rows[2], MAX_MINUTES_DIFF)
    /\ FinalScore(goal_rows[2], espn_rows[1], MAX_MINUTES_DIFF)
         > FinalScore(goal_rows[1], espn_rows[1], MAX_MINUTES_DIFF)
    /\ FinalScore(goal_rows[2], espn_rows[1], MAX_MINUTES_DIFF)
         > FinalScore(goal_rows[2], espn_rows[2], MAX_MINUTES_DIFF)
    /\ ~BeyondGap(goal_rows[2], espn_rows[1], MAX_MINUTES_DIFF)

\* both start times are instants
BothTimed(base, candidate) ==
    /\ parse_iso_utc(base.start_time_utc) # {}
    /\ parse_iso_utc(candidate.start_time_utc) # {}

\* the whole seconds between two instants
SecondsApart(base, candidate) ==
    With(The(parse_iso_utc(base.start_time_utc)), LAMBDA left :
    With(The(parse_iso_utc(candidate.start_time_utc)), LAMBDA right :
        IF left >= right THEN left - right ELSE right - left))

\* the gap rule on the links one run of the record linker returns: none is
\* beyond the gap; a link with both times carries the bonus, at most 0.10;
\* a link with a time missing carries none; and a candidate with a time
\* missing on either side that no earlier base row holds is in the
\* running, so the base row ends up linked at no less than their name
\* score when that reaches min_similarity
GapContract(links, base_rows, candidate_rows, min_similarity) ==
    /\ \A k \in 1..Len(links) :
         With(base_rows[links[k].base_index], LAMBDA base :
         With(candidate_rows[links[k].candidate_index], LAMBDA candidate :
            IF BothTimed(base, candidate)
            THEN /\ SecondsApart(base, candidate) <= MAX_MINUTES_DIFF * 60
                 /\ links[k].similarity - NameScore(base, candidate)
                      = Max(0, Unit - (SecondsApart(base, candidate) * (Unit \div 60))
                                        \div MAX_MINUTES_DIFF) \div 10
                 /\ links[k].similarity - NameScore(base, candidate) <= Unit \div 10
            ELSE links[k].similarity = NameScore(base, candidate)))
    /\ \A b \in 1..Len(base_rows), c \in 1..Len(candidate_rows) :
         (/\ ~BothTimed(base_rows[b], candidate_rows[c])
          /\ c \notin UsedBefore(links, b)
          /\ NameScore(base_rows[b], candidate_rows[c]) >= min_similarity)
         => \E k \in 1..Len(links) :
               /\ links[k].base_index = b
               /\ links[k].similarity >= NameScore(base_rows[b], candidate_rows[c])

\* C28: no link of the record linker pairs a base row and a candidate whose
\* start times are both instants more than 180 minutes apart; a pair with
\* an absent or unparseable start time on either side is never excluded by
\* the gap and gets no bonus; with both instants the score is the name
\* similarity plus max(0, 1 - gap/180) * 0.10, at most 0.10 more
C28_TimeGapRule ==
    [][ /\ (pc = "espn" =>
              GapContract(goal_espn_links', merged, espn_rows, MIN_SIMILARITY_ESPN))
        /\ (pc = "sofascore" =>
              GapContract(merged_sofa_links', merged, sofa_rows, MIN_SIMILARITY_SOFA))
        /\ (pc = "streamed" =>
              GapContract(stream_links', merged, streamed_rows,
                          MIN_SIMILARITY_STREAMED))
      ]_vars

\* C28 witness: the first goal row is 181 minutes from the first espn row,
\* whose names it matches, and exactly 180 from the second, to which it is
\* linked without any bonus left; the second goal row has no start time and
\* is linked to the first espn row at their name score
C28_Witness ==
    /\ pc = "sofascore"
    /\ Len(goal_rows) = 2 /\ Len(espn_rows) = 2 /\ Len(goal_espn_links) = 2
    /\ BothTimed(goal_rows[1], espn_rows[1])
    /\ SecondsApart(goal_rows[1], espn_rows[1]) = 181 * 60
    /\ NameScore(goal_rows[1], espn_rows[1]) >= MIN_SIMILARITY_ESPN
    /\ goal_espn_links[1].base_index = 1 /\ goal_espn_links[1].candidate_index = 2
    /\ BothTimed(goal_rows[1], espn_rows[2])
    /\ SecondsApart(goal_rows[1], espn_rows[2]) = 180 * 60
    /\ goal_espn_links[1].similarity = NameScore(goal_rows[1], espn_rows[2])
    /\ goal_espn_links[2].base_index = 2 /\ goal_espn_links[2].candidate_index = 1
    /\ goal_rows[2].start_time_utc = NoTime
    /\ goal_espn_links[2].similarity = NameScore(goal_rows[2], espn_rows[1])

\* what team_pair_similarity is to return for two pairs of names: the larger
\* average, and TRUE only when the swapped average is the larger
PairContract(home_a, away_a, home_b, away_b) ==
    /\ team_pair_similarity(home_a, away_a, home_b, away_b)[1]
         = Max((similarity(home_a, home_b) + similarity(away_a, away_b)) \div 2,
               (similarity(home_a, away_b) + similarity(away_a, home_b)) \div 2)
    /\ team_pair_similarity(home_a, away_a, home_b, away_b)[2]
         = ((similarity(home_a, away_b) + similarity(away_a, home_b)) \div 2
              > (similarity(home_a, home_b) + similarity(away_a, away_b)) \div 2)
    /\ team_pair_similarity(home_a, away_a, home_b, away_b)[1]
         = team_pair_similarity(away_a, home_a, away_b, home_b)[1]

\* the team names of a list of rows
NamesIn(rows) ==
    {rows[i].home_team : i \in 1..Len(rows)} \cup {rows[i].away_team : i \in 1..Len(rows)}

\* the links one run of the record linker returns carry the orientation
\* team_pair_similarity chose for their rows
OrientationContract(links, base_rows, candidate_rows) ==
    \A k \in 1..Len(links) :
        links[k].swapped
          = (SwappedAverage(base_rows[links[k].base_index],
                            candidate_rows[links[k].candidate_index])
               > DirectAverage(base_rows[links[k].base_index],
                               candidate_rows[links[k].candidate_index]))

\* C29: team_pair_similarity returns the larger of the direct and the
\* swapped average, says swapped only when the swapped average is strictly
\* the larger (a tie is direct), and gives (h1,a1,h2,a2) and (a1,h1,a2,h2)
\* the same score; so for every four names the rows in hand carry, whose
\* similarity is not symmetric, and so in the links every stage gets
C29_PairSimilarity ==
    [][ /\ (pc = "espn" =>
              /\ \A home_a, away_a, home_b, away_b
                       \in NamesIn(merged) \cup NamesIn(espn_rows) :
                    PairContract(home_a, away_a, home_b, away_b)
              /\ OrientationContract(goal_espn_links', merged, espn_rows))
        /\ (pc = "sofascore" =>
              OrientationContract(merged_sofa_links', merged, sofa_rows))
        /\ (pc = "streamed" =>
              OrientationContract(stream_links', merged, streamed_rows))
      ]_vars

\* C29 witness: the first goal row is linked in the swapped orientation,
\* whose average is the larger; the second scores the same both ways round
\* with its candidate and is linked in the direct orientation
C29_Witness ==
    /\ pc = "sofascore"
    /\ Len(goal_rows) = 2 /\ Len(espn_rows) = 2 /\ Len(goal_espn_links) = 2
    /\ goal_espn_links[1].base_index = 1 /\ goal_espn_links[1].candidate_index = 1
    /\ goal_espn_links[1].swapped
    /\ SwappedAverage(goal_rows[1], espn_rows[1]) > DirectAverage(goal_rows[1], espn_rows[1])
    /\ goal_espn_links[2].base_index = 2 /\ goal_espn_links[2].candidate_index = 2
    /\ ~goal_espn_links[2].swapped
    /\ SwappedAverage(goal_rows[2], espn_rows[2]) = DirectAverage(goal_rows[2], espn_rows[2])

\* the scores of a row are both there
BothScores(row) == row.home_score # {} /\ row.away_score # {}

\* home with home and away with away, the two rows say the same
SamePositions(row, source_row) ==
    /\ row.home_score = source_row.home_score
    /\ row.away_score = source_row.away_score

\* what a stage did with the scores of every row it linked, whichever way
\* round the link was made: before_rows are the canonical rows the stage
\* found, after_rows those it left
PositionalContract(links, before_rows, after_rows, source_rows, filled) ==
    \A k \in 1..Len(links) :
        With(before_rows[links[k].base_index], LAMBDA before :
        With(after_rows[links[k].base_index], LAMBDA after :
        With(source_rows[links[k].candidate_index], LAMBDA source_row :
            /\ (BothScores(before) /\ SamePositions(before, source_row))
                 => /\ after.verification = "confirmed_by_multiple_sources"
                    /\ SamePositions(after, before)
            /\ (BothScores(before) /\ BothScores(source_row)
                   /\ ~SamePositions(before, source_row))
                 => /\ after.verification = "score_conflict"
                    /\ SamePositions(after, before)
            /\ (~BothScores(before) /\ BothScores(source_row))
                 => /\ after.verification = filled
                    /\ SamePositions(after, source_row))))

\* C30: stages 2 and 3 compare the canonical row's scores with the linked
\* source row's home with home and away with away, whether or not the link
\* was made in the swapped orientation: the mirrored pair (2-1 against 1-2)
\* is a score conflict, and a fill copies the source's home score to home
\* and its away score to away
C30_ScoresComparedPositionally ==
    [][ /\ (pc = "espn" =>
              PositionalContract(goal_espn_links', merged, merged', espn_rows,
                                 "filled_from_espn"))
        /\ (pc = "sofascore" =>
              PositionalContract(merged_sofa_links', merged, merged', sofa_rows,
                                 "filled_from_sofascore"))
      ]_vars

\* C30 witness: a goal row without scores was linked in the swapped
\* orientation to an espn row saying 1-2 and now says 1-2; the sofascore
\* row, linked in the swapped orientation too, says 2-1, and the row is in
\* score conflict
C30_Witness ==
    /\ pc = "streamed"
    /\ Len(goal_rows) = 1 /\ Len(goal_espn_links) = 1 /\ Len(merged_sofa_links) = 1
    /\ goal_espn_links[1].swapped /\ merged_sofa_links[1].swapped
    /\ merged_sofa_links[1].base_index = 1
    /\ _score_pair(goal_rows[1]) = Scores({}, {})
    /\ _score_pair(espn_rows[1]) = Scores({1}, {2})
    /\ _score_pair(sofa_rows[1]) = Scores({2}, {1})
    /\ _score_pair(merged[1]) = Scores({1}, {2})
    /\ merged[1].verification = "score_conflict"

(***************************************************************************)
(* Properties of the merge stages, the stages taken together               *)
(***************************************************************************)
\* s is the beginning of t
IsPrefix(s, t) == Len(s) <= Len(t) /\ SubSeq(t, 1, Len(s)) = s

\* no step removes or reorders a discrepancy: a linking stage leaves every
\* canonical row's list as the beginning of its new list, the sort only
\* moves rows, and in no list a stage-3 string comes before a stage-2 one
DiscrepanciesAppendOnly ==
    /\ (pc \in {"espn", "sofascore", "streamed"} =>
          \A i \in 1..Len(merged) :
              IsPrefix(merged[i].discrepancies, merged'[i].discrepancies))
    /\ (pc = "sort" =>
          \A i \in 1..Len(merged') : \E j \in 1..Len(merged) : merged'[i] = merged[j])
    /\ \A i \in 1..Len(merged') :
         \A p, q \in 1..Len(merged'[i].discrepancies) :
             p < q => ~(/\ merged'[i].discrepancies[p].label
                             = "Merged score differs from SofaScore"
                        /\ merged'[i].discrepancies[q].label
                             = "Goal score differs from ESPN")

\* stage 3 on the rows it linked to a sofascore row with both scores, as
\* the claim has it: the same pair confirms, any other pair is a conflict
Stage3DecidesAsClaimed ==
    \A k \in 1..Len(merged_sofa_links') :
        With(merged[merged_sofa_links'[k].base_index], LAMBDA before :
        With(merged'[merged_sofa_links'[k].base_index], LAMBDA after :
        With(sofa_rows[merged_sofa_links'[k].candidate_index], LAMBDA sofa_row :
            BothScores(sofa_row) =>
              IF SamePositions(before, sofa_row)
              THEN /\ after.verification = "confirmed_by_multiple_sources"
                   /\ after.confidence >= Hundredths(96)
                   /\ after.discrepancies = before.discrepancies
              ELSE /\ after.verification = "score_conflict"
                   /\ after.confidence <= Hundredths(50))))

\* the same with the canonical row's missing scores told apart: the same
\* pair confirms, another fully known pair is a conflict with one string
\* more, and a canonical pair with a score missing is filled
Stage3Decides ==
    \A k \in 1..Len(merged_sofa_links') :
        With(merged[merged_sofa_links'[k].base_index], LAMBDA before :
        With(merged'[merged_sofa_links'[k].base_index], LAMBDA after :
        With(sofa_rows[merged_sofa_links'[k].candidate_index], LAMBDA sofa_row :
            BothScores(sofa_row) =>
              IF SamePositions(before, sofa_row)
              THEN /\ after.verification = "confirmed_by_multiple_sources"
                   /\ after.confidence >= Hundredths(96)
                   /\ after.discrepancies = before.discrepancies
              ELSE IF BothScores(before)
              THEN /\ after.verification = "score_conflict"
                   /\ after.confidence <= Hundredths(50)
                   /\ Len(after.discrepancies) = Len(before.discrepancies) + 1
              ELSE /\ after.verification = "filled_from_sofascore"
                   /\ after.confidence >= Hundredths(86)
                   /\ SamePositions(after, sofa_row)
                   /\ after.discrepancies = before.discrepancies)))

\* C31 as stated: whenever stage 3 links a sofascore row with both scores,
\* the same pair gives confirmed_by_multiple_sources with confidence at
\* least 0.96, whatever stage 2 said, and a different pair gives
\* score_conflict with confidence at most 0.50; discrepancies are only
\* appended, in stage order
C31_Stage3DecidesEqualOrConflict ==
    [][ /\ (pc = "sofascore" => Stage3DecidesAsClaimed)
        /\ DiscrepanciesAppendOnly ]_vars

\* C31, amended: whenever stage 3 links a sofascore row with both scores,
\* stage 3 alone decides the verification: the same pair gives
\* confirmed_by_multiple_sources with confidence at least 0.96 even after a
\* stage-2 conflict, whose string stays; a different pair gives
\* score_conflict with confidence at most 0.50 even after a stage-2
\* confirmation when the canonical pair is fully known, and
\* filled_from_sofascore with confidence at least 0.86 when it is not;
\* discrepancies are only appended, in stage order
C31_Stage3Decides ==
    [][ /\ (pc = "sofascore" => Stage3Decides)
        /\ DiscrepanciesAppendOnly ]_vars

\* C31 witness: stage 2 marked the goal row score_conflict (2-1 against
\* 1-1), stage 3 linked a sofascore row saying 2-1, and the row is now
\* confirmed at 0.96 or more with the stage-2 string still in its list
C31_Witness ==
    /\ pc = "streamed"
    /\ Len(goal_espn_links) = 1 /\ Len(merged_sofa_links) = 1
    /\ merged_sofa_links[1].base_index = goal_espn_links[1].base_index
    /\ _score_pair(goal_rows[1]) = Scores({2}, {1})
    /\ _score_pair(espn_rows[1]) = Scores({1}, {1})
    /\ _score_pair(sofa_rows[1]) = Scores({2}, {1})
    /\ merged[1].verification = "confirmed_by_multiple_sources"
    /\ merged[1].confidence >= Hundredths(96)
    /\ Len(merged[1].discrepancies) = 1
    /\ merged[1].discrepancies[1].label = "Goal score differs from ESPN"

\* the rows merge_provider_matches was given for a provider id
InputRowsOf(source) ==
    CASE source = "goal" -> goal_rows
      [] source = "espn" -> espn_rows
      [] source = "sofascore" -> sofa_rows
      [] source = "streamed" -> streamed_rows

\* the canonical row is a row of the named source's input, grown: it has
\* that row's native id, recorded under the source, its teams and its start
SeededBy(row, source) ==
    \E k \in 1..Len(InputRowsOf(source)) :
        With(InputRowsOf(source)[k], LAMBDA seed :
            /\ row.provider_match_id = seed.provider_match_id
            /\ source \in DOMAIN row.external_ids
            /\ row.external_ids[source] = seed.provider_match_id
            /\ row.home_team = seed.home_team /\ row.away_team = seed.away_team
            /\ row.start_time_utc = seed.start_time_utc)

\* C33: after every stage of the merge each canonical row's sources has no
\* provider id twice, begins with the provider whose row the canonical row
\* was made from, and holds exactly the keys of its external_ids
C33_SourcesMatchExternalIds ==
    \A i \in 1..Len(merged) :
        /\ \A p, q \in 1..Len(merged[i].sources) :
              p # q => merged[i].sources[p] # merged[i].sources[q]
        /\ Len(merged[i].sources) >= 1
        /\ SeededBy(merged[i], merged[i].sources[1])
        /\ {merged[i].sources[p] : p \in 1..Len(merged[i].sources)}
              = DOMAIN merged[i].external_ids

\* C33 witness: after stage 4 a canonical row made from an espn row has the
\* sofascore and the streamed source behind espn and the three ids
C33_Witness ==
    /\ pc = "sort"
    /\ \E i \in 1..Len(merged) :
         /\ merged[i].sources = <<"espn", "sofascore", "streamed">>
         /\ DOMAIN merged[i].external_ids = {"espn", "sofascore", "streamed"}
         /\ merged[i].provider_match_id = espn_rows[1].provider_match_id

(***************************************************************************)
(* Properties of the answers of get_scores, continued                      *)
(***************************************************************************)
\* the positions of the gate's input that go into each of its three buckets
ConflictBucket(answer, input) ==
    {j \in 1..Len(input) :
        input[j].verification = "score_conflict" /\ ~answer.quality.include_conflicts}

StaleBucket(snapshot, answer, input) ==
    {j \in 1..Len(input) \ ConflictBucket(answer, input) :
        StaleIn(snapshot, input[j]) /\ ~answer.quality.include_stale}

KeptBucket(snapshot, answer, input) ==
    (1..Len(input) \ ConflictBucket(answer, input)) \ StaleBucket(snapshot, answer, input)

\* C32: every row of the gate's input, the rows of the snapshot that passed
\* the status, source and league filters, is kept, dropped as a conflict or
\* dropped as stale, and only one of the three: the answer's matches are the
\* kept rows, the two counters are the sizes of the other two buckets, and
\* count + dropped_stale_count + dropped_conflict_count is the number of
\* input rows
C32_GateConservation ==
    \A call \in Answered :
        With(GateInput(call[2], call[3]), LAMBDA input :
            /\ Len(call[3].matches) = Cardinality(KeptBucket(call[2], call[3], input))
            /\ \A i \in 1..Len(call[3].matches) :
                  \E j \in KeptBucket(call[2], call[3], input) :
                      Unannotated(call[3].matches[i]) = input[j]
            /\ call[3].quality.dropped_conflict_count
                  = Cardinality(ConflictBucket(call[3], input))
            /\ call[3].quality.dropped_stale_count
                  = Cardinality(StaleBucket(call[2], call[3], input))
            /\ call[3].count + call[3].quality.dropped_stale_count
                  + call[3].quality.dropped_conflict_count = Len(input)
            /\ Len(input) <= Len(call[2].matches))

\* C32 witness: a call for the live matches with both flags off on a
\* snapshot of three rows, one of them finished: of the two rows that pass
\* the status filter one is a score conflict that is stale too and the
\* other is stale, and the counters are 1 and 1
C32_Witness ==
    \E call \in Answered :
        /\ ~call[3].quality.include_stale /\ ~call[3].quality.include_conflicts
        /\ Len(call[2].matches) = 3
        /\ Len(GateInput(call[2], call[3])) = 2
        /\ \E j \in ConflictBucket(call[3], GateInput(call[2], call[3])) :
              StaleIn(call[2], GateInput(call[2], call[3])[j])
        /\ call[3].count = 0
        /\ call[3].quality.dropped_conflict_count = 1
        /\ call[3].quality.dropped_stale_count = 1

(***************************************************************************)
(* Properties of the refresh cycle                                         *)
(***************************************************************************)
\* the calls whose futures are all done and whose snapshot is built but not
\* yet installed
Built == {t \in Threads : call_pc[t] = "install"}

\* C22: two refresh cycles that collected the same rows and the same errors
\* from the sources built the same match list and the same per-source
\* status, in whatever order the fetches of either completed; goal's rows are
\* the anchor of the merge, espn's, sofascore's and streamed's the second,
\* third and fourth input
C22_CompletionOrderIrrelevant ==
    /\ \A t, u \in Built :
         (provider_rows[t] = provider_rows[u]
          /\ provider_errors[t] = provider_errors[u]) =>
            /\ The(payload[t]).matches = The(payload[u]).matches
            /\ The(payload[t]).providers = The(payload[u]).providers
    /\ \A t \in Built :
         /\ \A i \in 1..Len(Get(provider_rows[t], "goal", <<>>)) :
              /\ i <= Len(The(payload[t]).matches)
              /\ The(payload[t]).matches[i].sources[1] = "goal"
         /\ \A i \in 1..Len(The(payload[t]).matches) :
              /\ The(payload[t]).matches[i].sources[1] # "streamed"
              /\ \A p \in DOMAIN The(payload[t]).matches[i].external_ids :
                   \E k \in 1..Len(Get(provider_rows[t], p, <<>>)) :
                      provider_rows[t][p][k].provider_match_id
                        = The(payload[t]).matches[i].external_ids[p]

\* C22 witness: two overlapping cycles have each collected the rows of all
\* four sources, the same ones, and each has built its snapshot: the goal row
\* with espn and streamed folded in, and the sofascore row
C22_Witness ==
    /\ Built = Threads
    /\ provider_rows[1] = provider_rows[2]
    /\ \A t \in Threads :
         /\ DOMAIN provider_rows[t] = {"goal", "espn", "sofascore", "streamed"}
         /\ provider_errors[t] = EmptyDict
         /\ Len(The(payload[t]).matches) = 2
         /\ The(payload[t]).matches[1].sources = <<"goal", "espn", "streamed">>

\* a refresh of another caller than t is in flight: its fetches are
\* submitted and its snapshot is not installed yet
OtherInFlight(t) ==
    \E u \in Threads \ {t} : call_pc[u] \in {"fetching", "install"}

\* the read of thread t, under the lock, is forced or finds no cached
\* snapshot or finds the deadline reached
MissesAtLock(t) ==
    /\ call_pc[t] = "lock"
    /\ force_refresh[t] \/ _cache_payload = {} \/ now[t] >= _cache_expires_at

\* C23: a read that is forced or finds the cache empty or expired while
\* another caller's refresh is in flight does not wait for it: its own
\* fetch cycle over every source can start at once, and when it starts it
\* submits every source; the snapshot a refresh installs and returns is the
\* one this call built from the rows it collected itself from every source
C23_NoCoalescing ==
    /\ [](\A t \in Threads :
            (MissesAtLock(t) /\ OtherInFlight(t)) => ENABLED CacheMiss(t))
    /\ [][ \A t \in Threads :
             /\ (MissesAtLock(t) /\ OtherInFlight(t) /\ call_pc'[t] # "lock") =>
                   /\ call_pc'[t] = "fetching"
                   /\ future_map'[t] = DOMAIN providers
                   /\ provider_rows'[t] = EmptyDict
                   /\ \A name \in DOMAIN providers : fetch_calls'[t][name] = 1
             /\ (call_pc[t] = "install" /\ call_pc'[t] # "install") =>
                   /\ DOMAIN provider_rows[t] = DOMAIN providers
                   /\ The(payload[t]).matches =
                        merge_provider_matches(provider_rows[t]["goal"],
                                               provider_rows[t]["espn"],
                                               provider_rows[t]["streamed"],
                                               provider_rows[t]["sofascore"])
                   /\ _cache_payload' = payload[t]
                   /\ result'[t] = payload[t]
         ]_vars

\* C23 witness: two forced reads entered at time 0; one built its snapshot
\* at time 1 and the other, which had entered before that, built its own at
\* time 2; each returned its own snapshot, and the cache holds the later one
C23_Witness ==
    /\ \A t \in Threads :
         /\ call_pc[t] = "returned" /\ force_refresh[t] /\ now[t] = 0
         /\ future_map[t] = DOMAIN providers
    /\ The(result[1]).generated_at_utc = IsoTime(1, "Z")
    /\ The(result[2]).generated_at_utc = IsoTime(2, "Z")
    /\ _cache_payload = result[2]

\* the read of thread t, under the lock, is not forced and finds a cached
\* snapshot whose deadline is still ahead
HitsAtLock(t) ==
    /\ call_pc[t] = "lock"
    /\ ~force_refresh[t]
    /\ _cache_payload # {}
    /\ now[t] < _cache_expires_at

\* C24: no thread is inside a "with self._lock" block while its fetches or
\* its merge are in progress; so a non-forced read that finds a cached
\* snapshot before its deadline, while another caller's refresh is in flight
\* (and may hang for ever), can take its step at once, and that step returns
\* the cached snapshot without fetching
C24_LockNotHeldWhileFetching ==
    /\ [](\A t \in Threads : call_pc[t] \in {"fetching", "install"} => _lock # t)
    /\ [](\A t \in Threads :
            (HitsAtLock(t) /\ OtherInFlight(t)) => ENABLED CacheHit(t))
    /\ [][ \A t \in Threads :
             (HitsAtLock(t) /\ OtherInFlight(t) /\ call_pc'[t] # "lock") =>
                /\ call_pc'[t] = "returned"
                /\ result'[t] = _cache_payload
                /\ future_map'[t] = {}
                /\ \A u \in Threads \ {t} : call_pc'[u] = call_pc[u]
         ]_vars

\* C24 witness: thread 2 entered a forced read at time 0 and its fetch of
\* goal has not completed; thread 1, whose first call installed a snapshot
\* at time 1, read again at time 1 without force and has the cached
\* snapshot back
C24_Witness ==
    /\ call_pc[2] = "fetching" /\ force_refresh[2] /\ now[2] = 0
    /\ "goal" \notin DOMAIN provider_rows[2]
    /\ call_pc[1] = "returned" /\ calls_left[1] = 0
    /\ ~force_refresh[1] /\ now[1] = 1
    /\ future_map[1] = {}
    /\ result[1] # {} /\ result[1] = _cache_payload
    /\ _cache_expires_at = 2

\* the call of thread t went through a refresh cycle and has collected
\* every source's outcome
CycleDone(t) ==
    /\ call_pc[t] \in {"install", "returned", "responded", "mutated"}
    /\ future_map[t] # {}

\* C25: in one refresh cycle the fetch of every configured source is handed
\* to the executor exactly once, whether it then returns or raises: the
\* count of a source never passes 1, it is 1 for every source when the cycle
\* is done, for those that raised too, and the step that records a failure
\* submits nothing; counts are set only where a call's own cycle starts,
\* after a miss (forced, empty or expired cache) under the lock
C25_NoRetry ==
    /\ [](\A t \in Threads :
            /\ \A name \in DOMAIN fetch_calls[t] : fetch_calls[t][name] = 1
            /\ call_pc[t] = "fetching" => DOMAIN fetch_calls[t] = DOMAIN providers
            /\ CycleDone(t) =>
                 /\ DOMAIN fetch_calls[t] = DOMAIN providers
                 /\ DOMAIN provider_errors[t] \subseteq DOMAIN fetch_calls[t])
    /\ [][ \A t \in Threads :
             /\ (DOMAIN provider_errors'[t] # DOMAIN provider_errors[t]
                 /\ call_pc[t] = "fetching") =>
                   /\ fetch_calls'[t] = fetch_calls[t]
                   /\ future_map'[t] = future_map[t]
                   /\ \E name \in DOMAIN providers \ DOMAIN provider_rows[t] :
                        /\ DOMAIN provider_errors'[t]
                             = DOMAIN provider_errors[t] \cup {name}
                        /\ DOMAIN provider_rows'[t]
                             = DOMAIN provider_rows[t] \cup {name}
             /\ (fetch_calls'[t] # fetch_calls[t] /\ fetch_calls'[t] # EmptyDict) =>
                   /\ call_pc[t] = "lock" /\ call_pc'[t] = "fetching"
                   /\ fetch_calls[t] = EmptyDict
                   /\ force_refresh[t] \/ _cache_payload = {}
                        \/ now[t] >= _cache_expires_at
         ]_vars

\* C25 witness: goal's fetch raised in a thread's first cycle, whose
\* snapshot is cached; the second call of the thread, forced, has run a
\* cycle of its own in which goal was fetched once more, raised again, and
\* was not fetched a second time
C25_Witness ==
    \E t \in Threads :
       /\ call_pc[t] = "install" /\ calls_left[t] = 0 /\ force_refresh[t]
       /\ _cache_payload # {}
       /\ ~The(_cache_payload).providers["goal"].ok
       /\ "goal" \in DOMAIN provider_errors[t]
       /\ "espn" \notin DOMAIN provider_errors[t]
       /\ \A name \in DOMAIN providers : fetch_calls[t][name] = 1

\* get_scores has been called by thread t and has not returned
InCall(t) == call_pc[t] \in {"lock", "fetching", "install", "returned"}

\* every configured source raises on every fetch
AllSourcesFail ==
    \A name \in DOMAIN providers : \A outcome \in providers[name] : outcome.raises

\* C26: if every fetch a call submits returns or raises, every get_scores
\* call returns a snapshot, whichever of the sources fail; when all of them
\* fail the snapshot has no matches, count 0, and every source not ok
C26_AlwaysReturnsSnapshot ==
    \A t \in Threads :
       InCall(t) ~>
          /\ call_pc[t] = "responded"
          /\ response[t] # {}
          /\ AllSourcesFail =>
               /\ The(response[t]).matches = <<>>
               /\ The(response[t]).count = 0
               /\ \A name \in DOMAIN providers :
                    ~The(response[t]).providers[name].ok

\* C26 witness: a call of a service all of whose sources raise has returned
\* a snapshot without matches that reports the four failures
C26_Witness ==
    \E t \in Threads :
       /\ call_pc[t] = "responded"
       /\ AllSourcesFail
       /\ DOMAIN provider_errors[t] = {"goal", "espn", "sofascore", "streamed"}
       /\ The(response[t]).matches = <<>>
       /\ \A name \in DOMAIN providers :
            The(response[t]).providers[name].error = {"HTTP 503"}
\* the instant a snapshot says it was generated at, in seconds
GeneratedAt(snapshot) == The(parse_iso_utc(snapshot.generated_at_utc))

\* the calls that install their snapshot in this step
Installing == {t \in Threads : call_pc[t] = "install" /\ call_pc'[t] = "returned"}

\* C34 as stated: whenever the cached snapshot is replaced, the new one was
\* not generated before the old one, also when refresh cycles overlap
C34_GenerationNeverDecreases ==
    [][ (_cache_payload # {} /\ _cache_payload' # {})
          => GeneratedAt(The(_cache_payload')) >= GeneratedAt(The(_cache_payload))
      ]_vars

\* C34, amended: the cache holds the snapshot of the refresh that installed
\* last and a deadline that never decreases; the snapshot installed was
\* generated no earlier than its call read the clock, so its generation
\* timestamp is not below the cached one's when the call began after that
\* one was generated, while a refresh that overlaps another and installs
\* after it replaces the cached snapshot also when its own was generated
\* earlier
C34_LastInstallWins ==
    [][ /\ _cache_expires_at' >= _cache_expires_at
        /\ \A t \in Installing :
              /\ _cache_payload' = payload[t]
              /\ GeneratedAt(The(payload[t])) >= now[t]
              /\ (_cache_payload # {} /\ GeneratedAt(The(_cache_payload)) <= now[t])
                    => GeneratedAt(The(_cache_payload'))
                         >= GeneratedAt(The(_cache_payload))
      ]_vars

\* C34 witness: two calls have each installed a snapshot, and the cache
\* holds the one that was generated earlier
C34_Witness ==
    \E t, u \in Threads :
        /\ call_pc[t] = "returned" /\ call_pc[u] = "returned"
        /\ result[t] # {} /\ result[u] # {}
        /\ GeneratedAt(The(result[t])) < GeneratedAt(The(result[u]))
        /\ _cache_payload = result[t]

\* C35: two calls of get_scores with the same arguments whose reads
\* returned the same snapshot get equal answers: the same matches with the
\* same is_stale flags and ages and the same dropped counts, whenever each
\* of them was answered
C35_SameSnapshotSameAnswer ==
    \A first \in Answered, second \in Answered :
        (/\ first[2] = second[2]
         /\ first[3].filters = second[3].filters
         /\ first[3].quality.include_stale = second[3].quality.include_stale
         /\ first[3].quality.include_conflicts = second[3].quality.include_conflicts)
          => first[3] = second[3]

\* C35 witness: two threads asked for everything and were answered from one
\* snapshot generated at second 0; the clock is beyond the staleness
\* threshold since, and both answers give the goal row the age 0, not stale
C35_Witness ==
    \E first \in Answered, second \in Answered :
        /\ first[1] # second[1]
        /\ first[2] = second[2]
        /\ GeneratedAt(first[2]) = 0
        /\ clock > max_live_stale_seconds
        /\ first[3].quality.include_stale /\ second[3].quality.include_stale
        /\ first[3] = second[3]
        /\ Len(first[3].matches) = 2
        /\ \E i \in 1..Len(first[3].matches) :
              /\ first[3].matches[i].last_update_age_seconds = {0}
              /\ ~first[3].matches[i].is_stale

====
